---- MODULE Spec2Model ----
(***************************************************************************)
(* A model of the AI-Writer SEO glue code:                                 *)
(*   lib/ai_seo_tools/dataforseo_analyzer.py  (API client, polling loop,   *)
(*                                             response flattening)        *)
(*   lib/utils/document_rag.py                (document loader, folder     *)
(*                                             summarizer)                 *)
(*   lib/utils/dataforseo_tools.py            (the audit page)             *)
(*   api/index.py                             (bootstrap HTTP server)      *)
(*                                                                         *)
(* Python values are encoded as tagged records so that None, dicts, lists  *)
(* and strings can be told apart the way the interpreter tells them apart. *)
(* An exception that leaves a function is the value Raise(<type>).         *)
(***************************************************************************)
EXTENDS Integers, Sequences, FiniteSets, TLC

(***************************************************************************)
(* Python values                                                           *)
(*                                                                         *)
(* A str is a TLA+ string where the program reads it as a whole (the JSON  *)
(* values, the messages) and a sequence where the program takes it apart:  *)
(* of code points for the strs whose characters it tests (the HTTP method, *)
(* paths, seed keywords, PORT), of pieces of text otherwise; Len, SubSeq   *)
(* and \o work on all of them.                                             *)
(***************************************************************************)
None_ == [t |-> "none"]
Dict(f) == [t |-> "dict", v |-> f]
List(s) == [t |-> "list", v |-> s]
Str(s) == [t |-> "str", v |-> s]
Num(n) == [t |-> "num", v |-> n]
Bool(b) == [t |-> "bool", v |-> b]
Raise(e) == [t |-> "raise", v |-> e]

\* a dict whose keys are enumerated by the program: a JSON object keeps the
\* order in which its keys were written
OrderedDict(keys, f) == [t |-> "dict", v |-> f, k |-> keys]

EmptyDict == Dict(<<>>)

IsRaise(x) == x.t = "raise"

\* bool(x) is False: None, {}, [], "", 0, False
Falsy(x) ==
    \/ x.t = "none"
    \/ x.t = "dict" /\ DOMAIN x.v = {}
    \/ x.t = "list" /\ Len(x.v) = 0
    \/ x.t = "str" /\ Len(x.v) = 0
    \/ x.t = "num" /\ x.v = 0
    \/ x.t = "bool" /\ ~x.v

Truthy(x) == ~Falsy(x)

OrSecond(a, b) == IF Truthy(b) THEN b ELSE a

\* a or b
Or(a, b) == IF Truthy(a) THEN a ELSE b

(***************************************************************************)
(* Characters                                                              *)
(*                                                                         *)
(* Where the program works on a str character by character (upper, lower,  *)
(* strip, split, splitext, int) the str is the sequence of its Unicode     *)
(* code points.  The character tables are those of CPython 3.11            *)
(* (Unicode 14.0).                                                         *)
(***************************************************************************)
\* the printable ASCII characters 32..95 and 97..126
PrintableLow ==
    " !\"#$%&'()*+,-./0123456789:;<=>?@ABCDEFGHIJKLMNOPQRSTUVWXYZ[\\]^_"
PrintableHigh == "abcdefghijklmnopqrstuvwxyz{|}~"

\* ord(c) for one of these characters, and the code points of a text
\* written in them
ord(c) ==
    IF \E k \in 1..Len(PrintableLow) : SubSeq(PrintableLow, k, k) = c
    THEN 31 + CHOOSE k \in 1..Len(PrintableLow) : SubSeq(PrintableLow, k, k) = c
    ELSE 96 + CHOOSE k \in 1..Len(PrintableHigh) :
                  SubSeq(PrintableHigh, k, k) = c
Codes(s) == [i \in 1..Len(s) |-> ord(SubSeq(s, i, i))]

HexDigits == "0123456789abcdef"

RECURSIVE Hex(_)
Hex(n) ==
    IF n < 16 THEN SubSeq(HexDigits, n + 1, n + 1)
    ELSE Hex(n \div 16) \o SubSeq(HexDigits, (n % 16) + 1, (n % 16) + 1)

\* a str inside a message: one of these characters as itself, except the
\* backslash; the backslash and every other character by its code point
RECURSIVE Printed(_)
Printed(chars) ==
    IF chars = <<>> THEN ""
    ELSE (IF Head(chars) \in (32..95) \ {92}
          THEN SubSeq(PrintableLow, Head(chars) - 31, Head(chars) - 31)
          ELSE IF Head(chars) \in 97..126
          THEN SubSeq(PrintableHigh, Head(chars) - 96, Head(chars) - 96)
          ELSE "\\u{" \o Hex(Head(chars)) \o "}")
         \o Printed(Tail(chars))

SetMax(S) == CHOOSE x \in S : \A y \in S : y <= x
SetMin(S) == CHOOSE x \in S : \A y \in S : x <= y

\* c lies in one of the ranges <<first, last>>
InRanges(c, ranges) == \E r \in ranges : r[1] <= c /\ c <= r[2]

\* c is one of first, first + step, ..., last of a range
\* <<first, last, step, shift>>; its image is c + shift
Mapped(c, ranges) ==
    \E r \in ranges : r[1] <= c /\ c <= r[2] /\ (c - r[1]) % r[3] = 0
Shifted(c, ranges) ==
    c + (CHOOSE r \in ranges :
             r[1] <= c /\ c <= r[2] /\ (c - r[1]) % r[3] = 0)[4]

\* the characters whose lower case is one other character
LowerRanges ==
    {<<65, 90, 1, 32>>, <<192, 214, 1, 32>>, <<216, 222, 1, 32>>,
     <<256, 302, 2, 1>>, <<306, 310, 2, 1>>, <<313, 327, 2, 1>>,
     <<330, 374, 2, 1>>, <<376, 376, 1, -121>>, <<377, 381, 2, 1>>,
     <<385, 385, 1, 210>>, <<386, 388, 2, 1>>, <<390, 390, 1, 206>>,
     <<391, 391, 1, 1>>, <<393, 394, 1, 205>>, <<395, 395, 1, 1>>,
     <<398, 398, 1, 79>>, <<399, 399, 1, 202>>, <<400, 400, 1, 203>>,
     <<401, 401, 1, 1>>, <<403, 403, 1, 205>>, <<404, 404, 1, 207>>,
     <<406, 406, 1, 211>>, <<407, 407, 1, 209>>, <<408, 408, 1, 1>>,
     <<412, 412, 1, 211>>, <<413, 413, 1, 213>>, <<415, 415, 1, 214>>,
     <<416, 420, 2, 1>>, <<422, 422, 1, 218>>, <<423, 423, 1, 1>>,
     <<425, 425, 1, 218>>, <<428, 428, 1, 1>>, <<430, 430, 1, 218>>,
     <<431, 431, 1, 1>>, <<433, 434, 1, 217>>, <<435, 437, 2, 1>>,
     <<439, 439, 1, 219>>, <<440, 440, 1, 1>>, <<444, 444, 1, 1>>,
     <<452, 452, 1, 2>>, <<453, 453, 1, 1>>, <<455, 455, 1, 2>>,
     <<456, 456, 1, 1>>, <<458, 458, 1, 2>>, <<459, 475, 2, 1>>,
     <<478, 494, 2, 1>>, <<497, 497, 1, 2>>, <<498, 500, 2, 1>>,
     <<502, 502, 1, -97>>, <<503, 503, 1, -56>>, <<504, 542, 2, 1>>,
     <<544, 544, 1, -130>>, <<546, 562, 2, 1>>, <<570, 570, 1, 10795>>,
     <<571, 571, 1, 1>>, <<573, 573, 1, -163>>, <<574, 574, 1, 10792>>,
     <<577, 577, 1, 1>>, <<579, 579, 1, -195>>, <<580, 580, 1, 69>>,
     <<581, 581, 1, 71>>, <<582, 590, 2, 1>>, <<880, 882, 2, 1>>,
     <<886, 886, 1, 1>>, <<895, 895, 1, 116>>, <<902, 902, 1, 38>>,
     <<904, 906, 1, 37>>, <<908, 908, 1, 64>>, <<910, 911, 1, 63>>,
     <<913, 929, 1, 32>>, <<931, 939, 1, 32>>, <<975, 975, 1, 8>>,
     <<984, 1006, 2, 1>>, <<1012, 1012, 1, -60>>, <<1015, 1015, 1, 1>>,
     <<1017, 1017, 1, -7>>, <<1018, 1018, 1, 1>>, <<1021, 1023, 1, -130>>,
     <<1024, 1039, 1, 80>>, <<1040, 1071, 1, 32>>, <<1120, 1152, 2, 1>>,
     <<1162, 1214, 2, 1>>, <<1216, 1216, 1, 15>>, <<1217, 1229, 2, 1>>,
     <<1232, 1326, 2, 1>>, <<1329, 1366, 1, 48>>, <<4256, 4293, 1, 7264>>,
     <<4295, 4295, 1, 7264>>, <<4301, 4301, 1, 7264>>,
     <<5024, 5103, 1, 38864>>, <<5104, 5109, 1, 8>>,
     <<7312, 7354, 1, -3008>>, <<7357, 7359, 1, -3008>>,
     <<7680, 7828, 2, 1>>, <<7838, 7838, 1, -7615>>, <<7840, 7934, 2, 1>>,
     <<7944, 7951, 1, -8>>, <<7960, 7965, 1, -8>>, <<7976, 7983, 1, -8>>,
     <<7992, 7999, 1, -8>>, <<8008, 8013, 1, -8>>, <<8025, 8031, 2, -8>>,
     <<8040, 8047, 1, -8>>, <<8072, 8079, 1, -8>>, <<8088, 8095, 1, -8>>,
     <<8104, 8111, 1, -8>>, <<8120, 8121, 1, -8>>, <<8122, 8123, 1, -74>>,
     <<8124, 8124, 1, -9>>, <<8136, 8139, 1, -86>>, <<8140, 8140, 1, -9>>,
     <<8152, 8153, 1, -8>>, <<8154, 8155, 1, -100>>, <<8168, 8169, 1, -8>>,
     <<8170, 8171, 1, -112>>, <<8172, 8172, 1, -7>>,
     <<8184, 8185, 1, -128>>, <<8186, 8187, 1, -126>>,
     <<8188, 8188, 1, -9>>, <<8486, 8486, 1, -7517>>,
     <<8490, 8490, 1, -8383>>, <<8491, 8491, 1, -8262>>,
     <<8498, 8498, 1, 28>>, <<8544, 8559, 1, 16>>, <<8579, 8579, 1, 1>>,
     <<9398, 9423, 1, 26>>, <<11264, 11311, 1, 48>>, <<11360, 11360, 1, 1>>,
     <<11362, 11362, 1, -10743>>, <<11363, 11363, 1, -3814>>,
     <<11364, 11364, 1, -10727>>, <<11367, 11371, 2, 1>>,
     <<11373, 11373, 1, -10780>>, <<11374, 11374, 1, -10749>>,
     <<11375, 11375, 1, -10783>>, <<11376, 11376, 1, -10782>>,
     <<11378, 11378, 1, 1>>, <<11381, 11381, 1, 1>>,
     <<11390, 11391, 1, -10815>>, <<11392, 11490, 2, 1>>,
     <<11499, 11501, 2, 1>>, <<11506, 11506, 1, 1>>, <<42560, 42604, 2, 1>>,
     <<42624, 42650, 2, 1>>, <<42786, 42798, 2, 1>>, <<42802, 42862, 2, 1>>,
     <<42873, 42875, 2, 1>>, <<42877, 42877, 1, -35332>>,
     <<42878, 42886, 2, 1>>, <<42891, 42891, 1, 1>>,
     <<42893, 42893, 1, -42280>>, <<42896, 42898, 2, 1>>,
     <<42902, 42920, 2, 1>>, <<42922, 42922, 1, -42308>>,
     <<42923, 42923, 1, -42319>>, <<42924, 42924, 1, -42315>>,
     <<42925, 42925, 1, -42305>>, <<42926, 42926, 1, -42308>>,
     <<42928, 42928, 1, -42258>>, <<42929, 42929, 1, -42282>>,
     <<42930, 42930, 1, -42261>>, <<42931, 42931, 1, 928>>,
     <<42932, 42946, 2, 1>>, <<42948, 42948, 1, -48>>,
     <<42949, 42949, 1, -42307>>, <<42950, 42950, 1, -35384>>,
     <<42951, 42953, 2, 1>>, <<42960, 42960, 1, 1>>, <<42966, 42968, 2, 1>>,
     <<42997, 42997, 1, 1>>, <<65313, 65338, 1, 32>>,
     <<66560, 66599, 1, 40>>, <<66736, 66771, 1, 40>>,
     <<66928, 66964, 2, 39>>, <<66929, 66937, 2, 39>>,
     <<66941, 66953, 2, 39>>, <<66957, 66961, 2, 39>>,
     <<66965, 66965, 1, 39>>, <<68736, 68786, 1, 64>>,
     <<71840, 71871, 1, 32>>, <<93760, 93791, 1, 32>>,
     <<125184, 125217, 1, 34>>}

\* the character whose lower case is two characters: the dotted capital I
LowerSpecial ==
    {<<304, <<105, 775>>>>}

\* the characters whose upper case is one other character
UpperRanges ==
    {<<97, 122, 1, -32>>, <<181, 181, 1, 743>>, <<224, 246, 1, -32>>,
     <<248, 254, 1, -32>>, <<255, 255, 1, 121>>, <<257, 303, 2, -1>>,
     <<305, 305, 1, -232>>, <<307, 311, 2, -1>>, <<314, 328, 2, -1>>,
     <<331, 375, 2, -1>>, <<378, 382, 2, -1>>, <<383, 383, 1, -300>>,
     <<384, 384, 1, 195>>, <<387, 389, 2, -1>>, <<392, 392, 1, -1>>,
     <<396, 396, 1, -1>>, <<402, 402, 1, -1>>, <<405, 405, 1, 97>>,
     <<409, 409, 1, -1>>, <<410, 410, 1, 163>>, <<414, 414, 1, 130>>,
     <<417, 421, 2, -1>>, <<424, 424, 1, -1>>, <<429, 429, 1, -1>>,
     <<432, 432, 1, -1>>, <<436, 438, 2, -1>>, <<441, 441, 1, -1>>,
     <<445, 445, 1, -1>>, <<447, 447, 1, 56>>, <<453, 453, 1, -1>>,
     <<454, 454, 1, -2>>, <<456, 456, 1, -1>>, <<457, 457, 1, -2>>,
     <<459, 459, 1, -1>>, <<460, 460, 1, -2>>, <<462, 476, 2, -1>>,
     <<477, 477, 1, -79>>, <<479, 495, 2, -1>>, <<498, 498, 1, -1>>,
     <<499, 499, 1, -2>>, <<501, 501, 1, -1>>, <<505, 543, 2, -1>>,
     <<547, 563, 2, -1>>, <<572, 572, 1, -1>>, <<575, 576, 1, 10815>>,
     <<578, 578, 1, -1>>, <<583, 591, 2, -1>>, <<592, 592, 1, 10783>>,
     <<593, 593, 1, 10780>>, <<594, 594, 1, 10782>>, <<595, 595, 1, -210>>,
     <<596, 596, 1, -206>>, <<598, 599, 1, -205>>, <<601, 601, 1, -202>>,
     <<603, 603, 1, -203>>, <<604, 604, 1, 42319>>, <<608, 608, 1, -205>>,
     <<609, 609, 1, 42315>>, <<611, 611, 1, -207>>, <<613, 613, 1, 42280>>,
     <<614, 614, 1, 42308>>, <<616, 616, 1, -209>>, <<617, 617, 1, -211>>,
     <<618, 618, 1, 42308>>, <<619, 619, 1, 10743>>, <<620, 620, 1, 42305>>,
     <<623, 623, 1, -211>>, <<625, 625, 1, 10749>>, <<626, 626, 1, -213>>,
     <<629, 629, 1, -214>>, <<637, 637, 1, 10727>>, <<640, 640, 1, -218>>,
     <<642, 642, 1, 42307>>, <<643, 643, 1, -218>>, <<647, 647, 1, 42282>>,
     <<648, 648, 1, -218>>, <<649, 649, 1, -69>>, <<650, 651, 1, -217>>,
     <<652, 652, 1, -71>>, <<658, 658, 1, -219>>, <<669, 669, 1, 42261>>,
     <<670, 670, 1, 42258>>, <<837, 837, 1, 84>>, <<881, 883, 2, -1>>,
     <<887, 887, 1, -1>>, <<891, 893, 1, 130>>, <<940, 940, 1, -38>>,
     <<941, 943, 1, -37>>, <<945, 961, 1, -32>>, <<962, 962, 1, -31>>,
     <<963, 971, 1, -32>>, <<972, 972, 1, -64>>, <<973, 974, 1, -63>>,
     <<976, 976, 1, -62>>, <<977, 977, 1, -57>>, <<981, 981, 1, -47>>,
     <<982, 982, 1, -54>>, <<983, 983, 1, -8>>, <<985, 1007, 2, -1>>,
     <<1008, 1008, 1, -86>>, <<1009, 1009, 1, -80>>, <<1010, 1010, 1, 7>>,
     <<1011, 1011, 1, -116>>, <<1013, 1013, 1, -96>>, <<1016, 1016, 1, -1>>,
     <<1019, 1019, 1, -1>>, <<1072, 1103, 1, -32>>, <<1104, 1119, 1, -80>>,
     <<1121, 1153, 2, -1>>, <<1163, 1215, 2, -1>>, <<1218, 1230, 2, -1>>,
     <<1231, 1231, 1, -15>>, <<1233, 1327, 2, -1>>, <<1377, 1414, 1, -48>>,
     <<4304, 4346, 1, 3008>>, <<4349, 4351, 1, 3008>>,
     <<5112, 5117, 1, -8>>, <<7296, 7296, 1, -6254>>,
     <<7297, 7297, 1, -6253>>, <<7298, 7298, 1, -6244>>,
     <<7299, 7300, 1, -6242>>, <<7301, 7301, 1, -6243>>,
     <<7302, 7302, 1, -6236>>, <<7303, 7303, 1, -6181>>,
     <<7304, 7304, 1, 35266>>, <<7545, 7545, 1, 35332>>,
     <<7549, 7549, 1, 3814>>, <<7566, 7566, 1, 35384>>,
     <<7681, 7829, 2, -1>>, <<7835, 7835, 1, -59>>, <<7841, 7935, 2, -1>>,
     <<7936, 7943, 1, 8>>, <<7952, 7957, 1, 8>>, <<7968, 7975, 1, 8>>,
     <<7984, 7991, 1, 8>>, <<8000, 8005, 1, 8>>, <<8017, 8023, 2, 8>>,
     <<8032, 8039, 1, 8>>, <<8048, 8049, 1, 74>>, <<8050, 8053, 1, 86>>,
     <<8054, 8055, 1, 100>>, <<8056, 8057, 1, 128>>, <<8058, 8059, 1, 112>>,
     <<8060, 8061, 1, 126>>, <<8112, 8113, 1, 8>>, <<8126, 8126, 1, -7205>>,
     <<8144, 8145, 1, 8>>, <<8160, 8161, 1, 8>>, <<8165, 8165, 1, 7>>,
     <<8526, 8526, 1, -28>>, <<8560, 8575, 1, -16>>, <<8580, 8580, 1, -1>>,
     <<9424, 9449, 1, -26>>, <<11312, 11359, 1, -48>>,
     <<11361, 11361, 1, -1>>, <<11365, 11365, 1, -10795>>,
     <<11366, 11366, 1, -10792>>, <<11368, 11372, 2, -1>>,
     <<11379, 11379, 1, -1>>, <<11382, 11382, 1, -1>>,
     <<11393, 11491, 2, -1>>, <<11500, 11502, 2, -1>>,
     <<11507, 11507, 1, -1>>, <<11520, 11557, 1, -7264>>,
     <<11559, 11559, 1, -7264>>, <<11565, 11565, 1, -7264>>,
     <<42561, 42605, 2, -1>>, <<42625, 42651, 2, -1>>,
     <<42787, 42799, 2, -1>>, <<42803, 42863, 2, -1>>,
     <<42874, 42876, 2, -1>>, <<42879, 42887, 2, -1>>,
     <<42892, 42892, 1, -1>>, <<42897, 42899, 2, -1>>,
     <<42900, 42900, 1, 48>>, <<42903, 42921, 2, -1>>,
     <<42933, 42947, 2, -1>>, <<42952, 42954, 2, -1>>,
     <<42961, 42961, 1, -1>>, <<42967, 42969, 2, -1>>,
     <<42998, 42998, 1, -1>>, <<43859, 43859, 1, -928>>,
     <<43888, 43967, 1, -38864>>, <<65345, 65370, 1, -32>>,
     <<66600, 66639, 1, -40>>, <<66776, 66811, 1, -40>>,
     <<66967, 67003, 2, -39>>, <<66968, 66976, 2, -39>>,
     <<66980, 66992, 2, -39>>, <<66996, 67000, 2, -39>>,
     <<67004, 67004, 1, -39>>, <<68800, 68850, 1, -64>>,
     <<71872, 71903, 1, -32>>, <<93792, 93823, 1, -32>>,
     <<125218, 125251, 1, -34>>}

\* the characters whose upper case is two or three characters
UpperSpecial ==
    {<<223, <<83, 83>>>>, <<329, <<700, 78>>>>, <<496, <<74, 780>>>>,
     <<912, <<921, 776, 769>>>>, <<944, <<933, 776, 769>>>>,
     <<1415, <<1333, 1362>>>>, <<7830, <<72, 817>>>>, <<7831, <<84, 776>>>>,
     <<7832, <<87, 778>>>>, <<7833, <<89, 778>>>>, <<7834, <<65, 702>>>>,
     <<8016, <<933, 787>>>>, <<8018, <<933, 787, 768>>>>,
     <<8020, <<933, 787, 769>>>>, <<8022, <<933, 787, 834>>>>,
     <<8064, <<7944, 921>>>>, <<8065, <<7945, 921>>>>,
     <<8066, <<7946, 921>>>>, <<8067, <<7947, 921>>>>,
     <<8068, <<7948, 921>>>>, <<8069, <<7949, 921>>>>,
     <<8070, <<7950, 921>>>>, <<8071, <<7951, 921>>>>,
     <<8072, <<7944, 921>>>>, <<8073, <<7945, 921>>>>,
     <<8074, <<7946, 921>>>>, <<8075, <<7947, 921>>>>,
     <<8076, <<7948, 921>>>>, <<8077, <<7949, 921>>>>,
     <<8078, <<7950, 921>>>>, <<8079, <<7951, 921>>>>,
     <<8080, <<7976, 921>>>>, <<8081, <<7977, 921>>>>,
     <<8082, <<7978, 921>>>>, <<8083, <<7979, 921>>>>,
     <<8084, <<7980, 921>>>>, <<8085, <<7981, 921>>>>,
     <<8086, <<7982, 921>>>>, <<8087, <<7983, 921>>>>,
     <<8088, <<7976, 921>>>>, <<8089, <<7977, 921>>>>,
     <<8090, <<7978, 921>>>>, <<8091, <<7979, 921>>>>,
     <<8092, <<7980, 921>>>>, <<8093, <<7981, 921>>>>,
     <<8094, <<7982, 921>>>>, <<8095, <<7983, 921>>>>,
     <<8096, <<8040, 921>>>>, <<8097, <<8041, 921>>>>,
     <<8098, <<8042, 921>>>>, <<8099, <<8043, 921>>>>,
     <<8100, <<8044, 921>>>>, <<8101, <<8045, 921>>>>,
     <<8102, <<8046, 921>>>>, <<8103, <<8047, 921>>>>,
     <<8104, <<8040, 921>>>>, <<8105, <<8041, 921>>>>,
     <<8106, <<8042, 921>>>>, <<8107, <<8043, 921>>>>,
     <<8108, <<8044, 921>>>>, <<8109, <<8045, 921>>>>,
     <<8110, <<8046, 921>>>>, <<8111, <<8047, 921>>>>,
     <<8114, <<8122, 921>>>>, <<8115, <<913, 921>>>>,
     <<8116, <<902, 921>>>>, <<8118, <<913, 834>>>>,
     <<8119, <<913, 834, 921>>>>, <<8124, <<913, 921>>>>,
     <<8130, <<8138, 921>>>>, <<8131, <<919, 921>>>>,
     <<8132, <<905, 921>>>>, <<8134, <<919, 834>>>>,
     <<8135, <<919, 834, 921>>>>, <<8140, <<919, 921>>>>,
     <<8146, <<921, 776, 768>>>>, <<8147, <<921, 776, 769>>>>,
     <<8150, <<921, 834>>>>, <<8151, <<921, 776, 834>>>>,
     <<8162, <<933, 776, 768>>>>, <<8163, <<933, 776, 769>>>>,
     <<8164, <<929, 787>>>>, <<8166, <<933, 834>>>>,
     <<8167, <<933, 776, 834>>>>, <<8178, <<8186, 921>>>>,
     <<8179, <<937, 921>>>>, <<8180, <<911, 921>>>>, <<8182, <<937, 834>>>>,
     <<8183, <<937, 834, 921>>>>, <<8188, <<937, 921>>>>,
     <<64256, <<70, 70>>>>, <<64257, <<70, 73>>>>, <<64258, <<70, 76>>>>,
     <<64259, <<70, 70, 73>>>>, <<64260, <<70, 70, 76>>>>,
     <<64261, <<83, 84>>>>, <<64262, <<83, 84>>>>,
     <<64275, <<1348, 1350>>>>, <<64276, <<1348, 1333>>>>,
     <<64277, <<1348, 1339>>>>, <<64278, <<1358, 1350>>>>,
     <<64279, <<1348, 1341>>>>}

\* the cased characters, those that are also case-ignorable left out
Cased ==
    {<<65, 90>>, <<97, 122>>, <<170, 170>>, <<181, 181>>, <<186, 186>>,
     <<192, 214>>, <<216, 246>>, <<248, 442>>, <<444, 447>>, <<452, 659>>,
     <<661, 687>>, <<880, 883>>, <<886, 887>>, <<891, 893>>, <<895, 895>>,
     <<902, 902>>, <<904, 906>>, <<908, 908>>, <<910, 929>>, <<931, 1013>>,
     <<1015, 1153>>, <<1162, 1327>>, <<1329, 1366>>, <<1376, 1416>>,
     <<4256, 4293>>, <<4295, 4295>>, <<4301, 4301>>, <<4304, 4346>>,
     <<4349, 4351>>, <<5024, 5109>>, <<5112, 5117>>, <<7296, 7304>>,
     <<7312, 7354>>, <<7357, 7359>>, <<7424, 7467>>, <<7531, 7543>>,
     <<7545, 7578>>, <<7680, 7957>>, <<7960, 7965>>, <<7968, 8005>>,
     <<8008, 8013>>, <<8016, 8023>>, <<8025, 8025>>, <<8027, 8027>>,
     <<8029, 8029>>, <<8031, 8061>>, <<8064, 8116>>, <<8118, 8124>>,
     <<8126, 8126>>, <<8130, 8132>>, <<8134, 8140>>, <<8144, 8147>>,
     <<8150, 8155>>, <<8160, 8172>>, <<8178, 8180>>, <<8182, 8188>>,
     <<8450, 8450>>, <<8455, 8455>>, <<8458, 8467>>, <<8469, 8469>>,
     <<8473, 8477>>, <<8484, 8484>>, <<8486, 8486>>, <<8488, 8488>>,
     <<8490, 8493>>, <<8495, 8500>>, <<8505, 8505>>, <<8508, 8511>>,
     <<8517, 8521>>, <<8526, 8526>>, <<8544, 8575>>, <<8579, 8580>>,
     <<9398, 9449>>, <<11264, 11387>>, <<11390, 11492>>, <<11499, 11502>>,
     <<11506, 11507>>, <<11520, 11557>>, <<11559, 11559>>, <<11565, 11565>>,
     <<42560, 42605>>, <<42624, 42651>>, <<42786, 42863>>, <<42865, 42887>>,
     <<42891, 42894>>, <<42896, 42954>>, <<42960, 42961>>, <<42963, 42963>>,
     <<42965, 42969>>, <<42997, 42998>>, <<43002, 43002>>, <<43824, 43866>>,
     <<43872, 43880>>, <<43888, 43967>>, <<64256, 64262>>, <<64275, 64279>>,
     <<65313, 65338>>, <<65345, 65370>>, <<66560, 66639>>, <<66736, 66771>>,
     <<66776, 66811>>, <<66928, 66938>>, <<66940, 66954>>, <<66956, 66962>>,
     <<66964, 66965>>, <<66967, 66977>>, <<66979, 66993>>, <<66995, 67001>>,
     <<67003, 67004>>, <<68736, 68786>>, <<68800, 68850>>, <<71840, 71903>>,
     <<93760, 93823>>, <<119808, 119892>>, <<119894, 119964>>,
     <<119966, 119967>>, <<119970, 119970>>, <<119973, 119974>>,
     <<119977, 119980>>, <<119982, 119993>>, <<119995, 119995>>,
     <<119997, 120003>>, <<120005, 120069>>, <<120071, 120074>>,
     <<120077, 120084>>, <<120086, 120092>>, <<120094, 120121>>,
     <<120123, 120126>>, <<120128, 120132>>, <<120134, 120134>>,
     <<120138, 120144>>, <<120146, 120485>>, <<120488, 120512>>,
     <<120514, 120538>>, <<120540, 120570>>, <<120572, 120596>>,
     <<120598, 120628>>, <<120630, 120654>>, <<120656, 120686>>,
     <<120688, 120712>>, <<120714, 120744>>, <<120746, 120770>>,
     <<120772, 120779>>, <<122624, 122633>>, <<122635, 122654>>,
     <<125184, 125251>>, <<127280, 127305>>, <<127312, 127337>>,
     <<127344, 127369>>}

\* the case-ignorable characters
CaseIgnorable ==
    {<<39, 39>>, <<46, 46>>, <<58, 58>>, <<94, 94>>, <<96, 96>>,
     <<168, 168>>, <<173, 173>>, <<175, 175>>, <<180, 180>>, <<183, 184>>,
     <<688, 879>>, <<884, 885>>, <<890, 890>>, <<900, 901>>, <<903, 903>>,
     <<1155, 1161>>, <<1369, 1369>>, <<1375, 1375>>, <<1425, 1469>>,
     <<1471, 1471>>, <<1473, 1474>>, <<1476, 1477>>, <<1479, 1479>>,
     <<1524, 1524>>, <<1536, 1541>>, <<1552, 1562>>, <<1564, 1564>>,
     <<1600, 1600>>, <<1611, 1631>>, <<1648, 1648>>, <<1750, 1757>>,
     <<1759, 1768>>, <<1770, 1773>>, <<1807, 1807>>, <<1809, 1809>>,
     <<1840, 1866>>, <<1958, 1968>>, <<2027, 2037>>, <<2042, 2042>>,
     <<2045, 2045>>, <<2070, 2093>>, <<2137, 2139>>, <<2184, 2184>>,
     <<2192, 2193>>, <<2200, 2207>>, <<2249, 2306>>, <<2362, 2362>>,
     <<2364, 2364>>, <<2369, 2376>>, <<2381, 2381>>, <<2385, 2391>>,
     <<2402, 2403>>, <<2417, 2417>>, <<2433, 2433>>, <<2492, 2492>>,
     <<2497, 2500>>, <<2509, 2509>>, <<2530, 2531>>, <<2558, 2558>>,
     <<2561, 2562>>, <<2620, 2620>>, <<2625, 2626>>, <<2631, 2632>>,
     <<2635, 2637>>, <<2641, 2641>>, <<2672, 2673>>, <<2677, 2677>>,
     <<2689, 2690>>, <<2748, 2748>>, <<2753, 2757>>, <<2759, 2760>>,
     <<2765, 2765>>, <<2786, 2787>>, <<2810, 2815>>, <<2817, 2817>>,
     <<2876, 2876>>, <<2879, 2879>>, <<2881, 2884>>, <<2893, 2893>>,
     <<2901, 2902>>, <<2914, 2915>>, <<2946, 2946>>, <<3008, 3008>>,
     <<3021, 3021>>, <<3072, 3072>>, <<3076, 3076>>, <<3132, 3132>>,
     <<3134, 3136>>, <<3142, 3144>>, <<3146, 3149>>, <<3157, 3158>>,
     <<3170, 3171>>, <<3201, 3201>>, <<3260, 3260>>, <<3263, 3263>>,
     <<3270, 3270>>, <<3276, 3277>>, <<3298, 3299>>, <<3328, 3329>>,
     <<3387, 3388>>, <<3393, 3396>>, <<3405, 3405>>, <<3426, 3427>>,
     <<3457, 3457>>, <<3530, 3530>>, <<3538, 3540>>, <<3542, 3542>>,
     <<3633, 3633>>, <<3636, 3642>>, <<3654, 3662>>, <<3761, 3761>>,
     <<3764, 3772>>, <<3782, 3782>>, <<3784, 3789>>, <<3864, 3865>>,
     <<3893, 3893>>, <<3895, 3895>>, <<3897, 3897>>, <<3953, 3966>>,
     <<3968, 3972>>, <<3974, 3975>>, <<3981, 3991>>, <<3993, 4028>>,
     <<4038, 4038>>, <<4141, 4144>>, <<4146, 4151>>, <<4153, 4154>>,
     <<4157, 4158>>, <<4184, 4185>>, <<4190, 4192>>, <<4209, 4212>>,
     <<4226, 4226>>, <<4229, 4230>>, <<4237, 4237>>, <<4253, 4253>>,
     <<4348, 4348>>, <<4957, 4959>>, <<5906, 5908>>, <<5938, 5939>>,
     <<5970, 5971>>, <<6002, 6003>>, <<6068, 6069>>, <<6071, 6077>>,
     <<6086, 6086>>, <<6089, 6099>>, <<6103, 6103>>, <<6109, 6109>>,
     <<6155, 6159>>, <<6211, 6211>>, <<6277, 6278>>, <<6313, 6313>>,
     <<6432, 6434>>, <<6439, 6440>>, <<6450, 6450>>, <<6457, 6459>>,
     <<6679, 6680>>, <<6683, 6683>>, <<6742, 6742>>, <<6744, 6750>>,
     <<6752, 6752>>, <<6754, 6754>>, <<6757, 6764>>, <<6771, 6780>>,
     <<6783, 6783>>, <<6823, 6823>>, <<6832, 6862>>, <<6912, 6915>>,
     <<6964, 6964>>, <<6966, 6970>>, <<6972, 6972>>, <<6978, 6978>>,
     <<7019, 7027>>, <<7040, 7041>>, <<7074, 7077>>, <<7080, 7081>>,
     <<7083, 7085>>, <<7142, 7142>>, <<7144, 7145>>, <<7149, 7149>>,
     <<7151, 7153>>, <<7212, 7219>>, <<7222, 7223>>, <<7288, 7293>>,
     <<7376, 7378>>, <<7380, 7392>>, <<7394, 7400>>, <<7405, 7405>>,
     <<7412, 7412>>, <<7416, 7417>>, <<7468, 7530>>, <<7544, 7544>>,
     <<7579, 7679>>, <<8125, 8125>>, <<8127, 8129>>, <<8141, 8143>>,
     <<8157, 8159>>, <<8173, 8175>>, <<8189, 8190>>, <<8203, 8207>>,
     <<8216, 8217>>, <<8228, 8228>>, <<8231, 8231>>, <<8234, 8238>>,
     <<8288, 8292>>, <<8294, 8303>>, <<8305, 8305>>, <<8319, 8319>>,
     <<8336, 8348>>, <<8400, 8432>>, <<11388, 11389>>, <<11503, 11505>>,
     <<11631, 11631>>, <<11647, 11647>>, <<11744, 11775>>, <<11823, 11823>>,
     <<12293, 12293>>, <<12330, 12333>>, <<12337, 12341>>, <<12347, 12347>>,
     <<12441, 12446>>, <<12540, 12542>>, <<40981, 40981>>, <<42232, 42237>>,
     <<42508, 42508>>, <<42607, 42610>>, <<42612, 42621>>, <<42623, 42623>>,
     <<42652, 42655>>, <<42736, 42737>>, <<42752, 42785>>, <<42864, 42864>>,
     <<42888, 42890>>, <<42994, 42996>>, <<43000, 43001>>, <<43010, 43010>>,
     <<43014, 43014>>, <<43019, 43019>>, <<43045, 43046>>, <<43052, 43052>>,
     <<43204, 43205>>, <<43232, 43249>>, <<43263, 43263>>, <<43302, 43309>>,
     <<43335, 43345>>, <<43392, 43394>>, <<43443, 43443>>, <<43446, 43449>>,
     <<43452, 43453>>, <<43471, 43471>>, <<43493, 43494>>, <<43561, 43566>>,
     <<43569, 43570>>, <<43573, 43574>>, <<43587, 43587>>, <<43596, 43596>>,
     <<43632, 43632>>, <<43644, 43644>>, <<43696, 43696>>, <<43698, 43700>>,
     <<43703, 43704>>, <<43710, 43711>>, <<43713, 43713>>, <<43741, 43741>>,
     <<43756, 43757>>, <<43763, 43764>>, <<43766, 43766>>, <<43867, 43871>>,
     <<43881, 43883>>, <<44005, 44005>>, <<44008, 44008>>, <<44013, 44013>>,
     <<64286, 64286>>, <<64434, 64450>>, <<65024, 65039>>, <<65043, 65043>>,
     <<65056, 65071>>, <<65106, 65106>>, <<65109, 65109>>, <<65279, 65279>>,
     <<65287, 65287>>, <<65294, 65294>>, <<65306, 65306>>, <<65342, 65342>>,
     <<65344, 65344>>, <<65392, 65392>>, <<65438, 65439>>, <<65507, 65507>>,
     <<65529, 65531>>, <<66045, 66045>>, <<66272, 66272>>, <<66422, 66426>>,
     <<67456, 67461>>, <<67463, 67504>>, <<67506, 67514>>, <<68097, 68099>>,
     <<68101, 68102>>, <<68108, 68111>>, <<68152, 68154>>, <<68159, 68159>>,
     <<68325, 68326>>, <<68900, 68903>>, <<69291, 69292>>, <<69446, 69456>>,
     <<69506, 69509>>, <<69633, 69633>>, <<69688, 69702>>, <<69744, 69744>>,
     <<69747, 69748>>, <<69759, 69761>>, <<69811, 69814>>, <<69817, 69818>>,
     <<69821, 69821>>, <<69826, 69826>>, <<69837, 69837>>, <<69888, 69890>>,
     <<69927, 69931>>, <<69933, 69940>>, <<70003, 70003>>, <<70016, 70017>>,
     <<70070, 70078>>, <<70089, 70092>>, <<70095, 70095>>, <<70191, 70193>>,
     <<70196, 70196>>, <<70198, 70199>>, <<70206, 70206>>, <<70367, 70367>>,
     <<70371, 70378>>, <<70400, 70401>>, <<70459, 70460>>, <<70464, 70464>>,
     <<70502, 70508>>, <<70512, 70516>>, <<70712, 70719>>, <<70722, 70724>>,
     <<70726, 70726>>, <<70750, 70750>>, <<70835, 70840>>, <<70842, 70842>>,
     <<70847, 70848>>, <<70850, 70851>>, <<71090, 71093>>, <<71100, 71101>>,
     <<71103, 71104>>, <<71132, 71133>>, <<71219, 71226>>, <<71229, 71229>>,
     <<71231, 71232>>, <<71339, 71339>>, <<71341, 71341>>, <<71344, 71349>>,
     <<71351, 71351>>, <<71453, 71455>>, <<71458, 71461>>, <<71463, 71467>>,
     <<71727, 71735>>, <<71737, 71738>>, <<71995, 71996>>, <<71998, 71998>>,
     <<72003, 72003>>, <<72148, 72151>>, <<72154, 72155>>, <<72160, 72160>>,
     <<72193, 72202>>, <<72243, 72248>>, <<72251, 72254>>, <<72263, 72263>>,
     <<72273, 72278>>, <<72281, 72283>>, <<72330, 72342>>, <<72344, 72345>>,
     <<72752, 72758>>, <<72760, 72765>>, <<72767, 72767>>, <<72850, 72871>>,
     <<72874, 72880>>, <<72882, 72883>>, <<72885, 72886>>, <<73009, 73014>>,
     <<73018, 73018>>, <<73020, 73021>>, <<73023, 73029>>, <<73031, 73031>>,
     <<73104, 73105>>, <<73109, 73109>>, <<73111, 73111>>, <<73459, 73460>>,
     <<78896, 78904>>, <<92912, 92916>>, <<92976, 92982>>, <<92992, 92995>>,
     <<94031, 94031>>, <<94095, 94111>>, <<94176, 94177>>, <<94179, 94180>>,
     <<110576, 110579>>, <<110581, 110587>>, <<110589, 110590>>,
     <<113821, 113822>>, <<113824, 113827>>, <<118528, 118573>>,
     <<118576, 118598>>, <<119143, 119145>>, <<119155, 119170>>,
     <<119173, 119179>>, <<119210, 119213>>, <<119362, 119364>>,
     <<121344, 121398>>, <<121403, 121452>>, <<121461, 121461>>,
     <<121476, 121476>>, <<121499, 121503>>, <<121505, 121519>>,
     <<122880, 122886>>, <<122888, 122904>>, <<122907, 122913>>,
     <<122915, 122916>>, <<122918, 122922>>, <<123184, 123197>>,
     <<123566, 123566>>, <<123628, 123631>>, <<125136, 125142>>,
     <<125252, 125259>>, <<127995, 127999>>, <<917505, 917505>>,
     <<917536, 917631>>, <<917760, 917999>>}

\* str.isspace(): the characters str.strip() removes
Whitespace ==
    (9..13) \cup (28..32) \cup {133, 160, 5760} \cup (8192..8202)
    \cup {8232, 8233, 8239, 8287, 12288}

\* the white space int() passes over: not the separators 28..31
IntWhitespace == Whitespace \ (28..31)

\* the zero of each block of decimal digits (category Nd); the nine
\* characters after it are the digits one to nine
DecimalZeros ==
    {48, 1632, 1776, 1984, 2406, 2534, 2662, 2790, 2918, 3046, 3174, 3302,
     3430, 3558, 3664, 3792, 3872, 4160, 4240, 6112, 6160, 6470, 6608, 6784,
     6800, 6992, 7088, 7232, 7248, 42528, 43216, 43264, 43472, 43504, 43600,
     44016, 65296, 66720, 68912, 69734, 69872, 69942, 70096, 70384, 70736,
     70864, 71248, 71360, 71472, 71904, 72016, 72784, 73040, 73120, 92768,
     92864, 93008, 120782, 120792, 120802, 120812, 120822, 123200, 123632,
     125264, 130032}

LowerCharIdentity(c) == <<c>>

\* what str.lower() makes of one character standing alone: an ASCII
\* character first, as the interpreter does
LowerChar(c) ==
    IF c < 128 THEN <<IF c \in 65..90 THEN c + 32 ELSE c>>
    ELSE IF \E s \in LowerSpecial : s[1] = c
    THEN (CHOOSE s \in LowerSpecial : s[1] = c)[2]
    ELSE IF Mapped(c, LowerRanges) THEN <<Shifted(c, LowerRanges)>>
    ELSE <<c>>

\* the capital sigma at position i ends a word: a cased character comes
\* before it and none after it, case-ignorable characters passed over
FinalSigma(chars, i) ==
    LET before == {j \in 1..(i - 1) : ~InRanges(chars[j], CaseIgnorable)}
        after == {j \in (i + 1)..Len(chars) : ~InRanges(chars[j], CaseIgnorable)}
    IN /\ before # {}
       /\ InRanges(chars[SetMax(before)], Cased)
       /\ after = {} \/ ~InRanges(chars[SetMin(after)], Cased)

RECURSIVE LowerFrom(_, _)
LowerFrom(chars, i) ==
    IF i > Len(chars) THEN <<>>
    \* the capital sigma, U+03A3: the final or the medial small sigma
    ELSE (IF chars[i] = 931
          THEN <<IF FinalSigma(chars, i) THEN 962 ELSE 963>>
          ELSE LowerChar(chars[i]))
         \o LowerFrom(chars, i + 1)

\* str.lower()
lower(chars) == LowerFrom(chars, 1)

\* what str.upper() makes of one character
UpperChar(c) ==
    IF c < 128 THEN <<IF c \in 97..122 THEN c - 32 ELSE c>>
    ELSE IF \E s \in UpperSpecial : s[1] = c
    THEN (CHOOSE s \in UpperSpecial : s[1] = c)[2]
    ELSE IF Mapped(c, UpperRanges) THEN <<Shifted(c, UpperRanges)>>
    ELSE <<c>>

\* str.upper()
RECURSIVE upper(_)
upper(chars) ==
    IF chars = <<>> THEN <<>>
    ELSE UpperChar(Head(chars)) \o upper(Tail(chars))

\* the characters of a str, one by one
Chars(s) == [i \in 1..Len(s) |-> SubSeq(s, i, i)]

\* s occurs in text
IsSubstring(s, text) ==
    \E i \in 0..(Len(text) - Len(s)) : SubSeq(text, i + 1, i + Len(s)) = s

\* the keys of a dict, in their order
RECURSIVE SetToSeq(_)
SetToSeq(S) ==
    IF S = {} THEN <<>>
    ELSE LET e == CHOOSE e \in S : TRUE IN <<e>> \o SetToSeq(S \ {e})

Keys(x) == IF "k" \in DOMAIN x THEN x.k ELSE SetToSeq(DOMAIN x.v)

\* k in x, for a str k: a key of a dict, an element of a list, a substring
\* of a str; TypeError where x is not a container
HasKey(x, k) ==
    IF IsRaise(x) THEN x
    ELSE IF x.t = "dict" THEN Bool(k \in DOMAIN x.v)
    ELSE IF x.t = "list"
         THEN Bool(\E i \in DOMAIN x.v : x.v[i].t = "str" /\ x.v[i].v = k)
    ELSE IF x.t = "str" THEN Bool(IsSubstring(k, x.v))
    ELSE Raise("TypeError")

\* x[k] for a str k: KeyError on a dict without it, TypeError otherwise
GetItem(x, k) ==
    IF IsRaise(x) THEN x
    ELSE IF x.t = "dict"
         THEN IF k \in DOMAIN x.v THEN x.v[k] ELSE Raise("KeyError")
         ELSE Raise("TypeError")

\* x[0]: the first element of a list, the first character of a str,
\* IndexError when these are empty, KeyError on a dict, TypeError otherwise
Index0(x) ==
    IF IsRaise(x) THEN x
    ELSE IF x.t = "list"
         THEN IF Len(x.v) > 0 THEN x.v[1] ELSE Raise("IndexError")
    ELSE IF x.t = "str"
         THEN IF Len(x.v) > 0 THEN Str(SubSeq(x.v, 1, 1))
              ELSE Raise("IndexError")
    ELSE IF x.t = "dict" THEN Raise("KeyError")
    ELSE Raise("TypeError")

\* x.get(k, default): only a dict has the method
Get(x, k, default) ==
    IF IsRaise(x) THEN x
    ELSE IF x.t = "dict"
         THEN IF k \in DOMAIN x.v THEN x.v[k] ELSE default
         ELSE Raise("AttributeError")

\* for e in x: the elements of a list, the keys of a dict, the characters
\* of a str; TypeError otherwise
Iter(x) ==
    IF IsRaise(x) THEN x
    ELSE IF x.t = "list" THEN x
    ELSE IF x.t = "dict"
         THEN List([i \in DOMAIN Keys(x) |-> Str(Keys(x)[i])])
    ELSE IF x.t = "str"
         THEN List([i \in 1..Len(x.v) |-> Str(Chars(x.v)[i])])
    ELSE Raise("TypeError")

Digits == <<"0", "1", "2", "3", "4", "5", "6", "7", "8", "9">>

\* str(n) for an int n, as a sequence of characters
RECURSIVE str(_)
str(n) ==
    IF n < 0 THEN <<"-">> \o str(0 - n)
    ELSE IF n < 10 THEN <<Digits[n + 1]>>
    ELSE Append(str(n \div 10), Digits[(n % 10) + 1])

\* "".join(chars)
RECURSIVE Joined(_)
Joined(chars) == IF Len(chars) = 0 THEN "" ELSE Head(chars) \o Joined(Tail(chars))

\* sep.join(texts), for TLA+ strings
RECURSIVE JoinStr(_, _)
JoinStr(sep, texts) ==
    IF Len(texts) = 0 THEN ""
    ELSE IF Len(texts) = 1 THEN texts[1]
    ELSE texts[1] \o sep \o JoinStr(sep, Tail(texts))

\* repr(x) and str(x); the strs quoted here hold no quote, no backslash and
\* no control character
RECURSIVE Repr(_)
Repr(x) ==
    IF x.t = "none" THEN "None"
    ELSE IF x.t = "bool" THEN (IF x.v THEN "True" ELSE "False")
    ELSE IF x.t = "num" THEN Joined(str(x.v))
    ELSE IF x.t = "str" THEN "'" \o x.v \o "'"
    ELSE IF x.t = "list"
         THEN "[" \o JoinStr(", ", [i \in DOMAIN x.v |-> Repr(x.v[i])]) \o "]"
    ELSE "{" \o JoinStr(", ", [i \in DOMAIN Keys(x) |->
                 "'" \o Keys(x)[i] \o "': " \o Repr(x.v[Keys(x)[i]])]) \o "}"

\* f"{x}"
Format(x) == IF x.t = "str" THEN x.v ELSE Repr(x)

\* the digits of n >= 0 with a comma between the groups of three
RECURSIVE Grouped(_)
Grouped(n) ==
    IF n < 1000 THEN Joined(str(n))
    ELSE Grouped(n \div 1000) \o ","
         \o Joined(SubSeq(str(1000 + (n % 1000)), 2, 4))

\* f"{x:,}": an int only
FormatThousands(x) ==
    IF IsRaise(x) THEN x
    ELSE IF x.t = "num"
         THEN Str(IF x.v < 0 THEN "-" \o Grouped(0 - x.v) ELSE Grouped(x.v))
    ELSE IF x.t = "bool" THEN Str(IF x.v THEN "1" ELSE "0")
    ELSE IF x.t = "str" THEN Raise("ValueError")
    ELSE Raise("TypeError")

\* f"{x:.2f}": a number only
Format2f(x) ==
    IF IsRaise(x) THEN x
    ELSE IF x.t = "num" THEN Str(Joined(str(x.v)) \o ".00")
    ELSE IF x.t = "bool" THEN Str(IF x.v THEN "1.00" ELSE "0.00")
    ELSE IF x.t = "str" THEN Raise("ValueError")
    ELSE Raise("TypeError")

\* s * n, for a str or a list s
RECURSIVE Repeat(_, _)
Repeat(s, n) ==
    IF n <= 0 THEN SubSeq(s, 1, 0)
    ELSE LET half == Repeat(s, n \div 2)
         IN IF n % 2 = 0 THEN half \o half ELSE half \o half \o s

(***************************************************************************)
(* Program constants                                                       *)
(***************************************************************************)
max_retries == 5
SleepSeconds == 10

BASE_URL == "https://api.dataforseo.com/v3"

(***************************************************************************)
(* The remote API: what one HTTP exchange can turn out to be.              *)
(* A connection error and an HTTP error status are both                    *)
(* requests.exceptions.RequestException; otherwise the body is parsed.     *)
(***************************************************************************)
ConnError == [kind |-> "conn_error"]
HttpError == [kind |-> "http_error"]
Ok(body) == [kind |-> "ok", body |-> body]

NoTasks == Dict("status_message" :> Str("Ok."))
Tasks(s) == Dict(("status_message" :> Str("Ok.")) @@ ("tasks" :> List(s)))

TaskIds == {"t1", "t2"}

\* bodies of POST on_page/task_post
SubmitBodies ==
    {None_, EmptyDict, NoTasks, Tasks(<<>>), Tasks(<<EmptyDict>>),
     Num(5), Str("tasks"), List(<<Str("tasks")>>)}
    \cup {Tasks(<<Dict("id" :> Str(i))>>) : i \in TaskIds}

\* bodies of GET on_page/tasks/{task_id}
StatusBodies ==
    {None_, EmptyDict, NoTasks, Tasks(<<>>),
     Dict("tasks" :> None_), Num(5), Str("tasks"),
     Tasks(<<Dict("id" :> Str("t1"))>>),
     Tasks(<<Dict("status" :> Str("pending"))>>),
     Tasks(<<Dict("status" :> Str("ready"))>>)}

\* bodies of GET on_page/pages/{task_id} and of the live endpoints
ResultBodies ==
    {None_, EmptyDict, NoTasks, Tasks(<<>>), Num(5), List(<<Str("tasks")>>),
     Tasks(<<Dict("result" :> List(<<Dict("items" :> List(<<EmptyDict>>))>>))>>)}

Net(bodies) == {ConnError, HttpError} \cup {Ok(b) : b \in bodies}

(***************************************************************************)
(* What the user sees and what leaves the process, in order of occurrence  *)
(***************************************************************************)
EvError(msg) == [ev |-> "st.error", msg |-> msg]
EvSleep(n) == [ev |-> "sleep", n |-> n]
\* requests.get(url, headers=...) and requests.post(url, headers=..., json=...)
EvRequest(method, url, headers, data, kwargs) ==
    [ev |-> "request", method |-> method, url |-> url, headers |-> headers,
     data |-> data, kwargs |-> kwargs]

MsgNoCredentials == "DataForSEO API credentials not found"
MsgRequestFailed == "Error making request to DataForSEO API"
MsgUnsupported == "Unsupported HTTP method: "
MsgTimedOut == "Timed out waiting for on-page analysis to complete."

(***************************************************************************)
(* DataForSEOAnalyzer                                                      *)
(***************************************************************************)
\* the authorization header: "Basic " + base64(login:password); base64 is
\* injective, so the pair stands for its encoding
BasicAuth(login, password) == <<"Basic", login.v, ":", password.v>>

NoAnalyzer == [attrs |-> {}, login |-> None_, password |-> None_,
               base_url |-> "", headers |-> <<>>]

\* DataForSEOAnalyzer.__init__: the object, and what it displayed
NewAnalyzer(login, password, environ) ==
    LET l == Or(login, environ.login)
        p == Or(password, environ.password)
    IN IF Falsy(l) \/ Falsy(p)
       THEN [obj |-> [attrs |-> {"login", "password"}, login |-> l,
                      password |-> p, base_url |-> "", headers |-> <<>>],
             shown |-> <<EvError(MsgNoCredentials)>>]
       ELSE [obj |-> [attrs |-> {"login", "password", "base_url", "headers"},
                      login |-> l, password |-> p, base_url |-> BASE_URL,
                      headers |-> BasicAuth(l, p)],
             shown |-> <<>>]

GET == Codes("GET")
POST == Codes("POST")

\* DataForSEOAnalyzer.make_request: the value returned (or the exception
\* raised) and what was sent and displayed on the way; the URL is formatted
\* before the try block, GET sends no body
make_request(self, endpoint, method, data, net) ==
    IF "base_url" \notin self.attrs
    THEN [ret |-> Raise("AttributeError"), shown |-> <<>>]
    ELSE IF method.t # "str"
    THEN [ret |-> Raise("AttributeError"), shown |-> <<>>]
    ELSE LET url == <<self.base_url, "/">> \o endpoint
             sent(verb) ==
                 IF verb = GET
                 THEN EvRequest("GET", url, self.headers, None_, {"headers"})
                 ELSE EvRequest("POST", url, self.headers, data,
                                {"headers", "json"})
             exchange(verb) ==
                 IF verb \notin {GET, POST}
                 THEN [ret |-> None_,
                       shown |-> <<EvError(MsgUnsupported
                                           \o Printed(method.v))>>]
                 ELSE IF net.kind = "ok"
                      THEN [ret |-> net.body, shown |-> <<sent(verb)>>]
                      ELSE [ret |-> None_,
                            shown |-> <<sent(verb), EvError(MsgRequestFailed)>>]
         \* method.upper() is evaluated once
         IN CHOOSE r \in {exchange(verb) : verb \in {upper(method.v)}} : TRUE

\* "not response or 'tasks' not in response" is false; the membership test
\* raises TypeError on a truthy response that is no container
UsableNoKeyCheck(response) ==
    IF IsRaise(response) THEN response ELSE Bool(Truthy(response))

Usable(response) ==
    IF IsRaise(response) THEN response
    ELSE IF Falsy(response) THEN Bool(FALSE)
    ELSE HasKey(response, "tasks")

(***************************************************************************)
(* State                                                                   *)
(***************************************************************************)
VARIABLES
    environ,     \* DATAFORSEO_LOGIN, DATAFORSEO_PASSWORD read at import
    entry,       \* the page that built the analyzer: "main" or "audit"
    analyzer,    \* the DataForSEOAnalyzer instance
    pc,          \* where the running script is
    op,          \* the analyze_* method called
    last_call,   \* the latest make_request call: was the network failing,
                 \* what the call returned or raised, what it displayed
    task_response, \* analyze_on_page: the submission's response
    task_id,     \* analyze_on_page: task_response["tasks"][0]["id"]
    retries,     \* analyze_on_page: the retry counter
    polled,      \* analyze_on_page: every status_response received, in order
    results,     \* analyze_on_page: the response of the results fetch
    ret,         \* what the analyze_* call returned or raised
    trace        \* requests sent, sleeps and messages shown, in order

avars == <<environ, entry, analyzer, pc, op, last_call, task_response,
           task_id, retries, polled, results, ret, trace>>

VARIABLE
    selected     \* the Location and the limit chosen on the tab whose button
                 \* was pressed

svars == <<selected>>

NoValue == [t |-> "unset"]

\* the record kept of one make_request call
Called(net, r) == [failed |-> net.kind # "ok", ret |-> r.ret, shown |-> r.shown]

Credentials(set) == {None_} \cup {Str(s) : s \in set}

Environments == [login : Credentials({"env_login"}),
                 password : Credentials({"env_password"})]

InitAnalyzerIn(environments) ==
    /\ selected = [location |-> None_, limit |-> None_]
    /\ environ \in environments
    /\ entry = "none"
    /\ analyzer = NoAnalyzer
    /\ pc = "start"
    /\ op = "none"
    /\ last_call = NoValue
    /\ task_response = NoValue
    /\ results = NoValue
    /\ task_id = NoValue
    /\ retries = 0
    /\ polled = <<>>
    /\ ret = NoValue
    /\ trace = <<>>

InitAnalyzer == InitAnalyzerIn(Environments)

(***************************************************************************)
(* Building the analyzer                                                   *)
(***************************************************************************)
UiLogins == {Str(""), Str("ui_login")}
UiPasswords == {Str(""), Str("ui_password")}

\* main_dataforseo_analyzer: the credentials check and the construction
main_dataforseo_analyzer(login, password) ==
    /\ pc = "start"
    /\ entry' = "main"
    /\ IF Falsy(environ.login) \/ Falsy(environ.password)
       THEN IF Falsy(login) \/ Falsy(password)
            THEN /\ pc' = "stopped"
                 /\ UNCHANGED <<analyzer, trace>>
            ELSE LET made == NewAnalyzer(login, password, environ)
                 IN /\ analyzer' = made.obj
                    /\ trace' = trace \o made.shown
                    /\ pc' = "tabs"
       ELSE LET made == NewAnalyzer(None_, None_, environ)
            IN /\ analyzer' = made.obj
               /\ trace' = trace \o made.shown
               /\ pc' = "tabs"
    /\ UNCHANGED <<environ, op, last_call, task_response, task_id, retries,
                   polled, results, ret>>

\* run_dataforseo_audit, button pressed with a URL: DataForSEOAnalyzer()
run_dataforseo_audit ==
    /\ pc = "start"
    /\ entry' = "audit"
    /\ LET made == NewAnalyzer(None_, None_, environ)
       IN /\ analyzer' = made.obj
          /\ trace' = trace \o made.shown
    /\ pc' = "tabs"
    /\ UNCHANGED <<environ, op, last_call, task_response, task_id, retries,
                   polled, results, ret>>

(***************************************************************************)
(* The six single round trip analyses                                      *)
(***************************************************************************)
DefaultLocation == [location_code |-> 2840, language_code |-> "en"]
DefaultLimit == 100

\* the widgets of the tabs: st.selectbox("Location", ...) and st.slider
LocationNames == {"United States", "United Kingdom", "Canada", "Australia"}
location_codes ==
    [n \in LocationNames |->
        CASE n = "United States" -> 2840
          [] n = "United Kingdom" -> 2826
          [] n = "Canada" -> 2124
          [] n = "Australia" -> 2036]
SliderValues == {10, 100, 1000}

\* what the user selected on a tab; None where the tab has no such widget
Selections(hasLocation, hasLimit) ==
    [location : IF hasLocation THEN {Str(n) : n \in LocationNames} ELSE {None_},
     limit : IF hasLimit THEN {Num(n) : n \in SliderValues} ELSE {None_}]

\* the code of the selected location, the selected limit
SelectedCode(sel) ==
    IF sel.location = None_ THEN None_ ELSE Num(location_codes[sel.location.v])

PassedSelection(value, default) == IF value = None_ THEN default ELSE value.v

\* the value a parameter takes in analyzer.analyze_*(...) as the display
\* functions call it: the argument is not passed, the default applies
Passed(value, default) == default

\* the common body of analyze_keywords .. analyze_content_gaps
round_trip(name, endpoint, data, net) ==
    /\ pc = "tabs"
    /\ entry = "main"
    /\ \E r \in {make_request(analyzer, <<endpoint>>, Str(POST), data, net)} :
          /\ trace' = trace \o r.shown
          /\ last_call' = Called(net, r)
          /\ ret' = IF IsRaise(Usable(r.ret)) THEN Usable(r.ret)
                    ELSE IF ~Usable(r.ret).v THEN None_
                    ELSE r.ret
    /\ op' = name
    /\ pc' = "done"
    /\ UNCHANGED <<environ, entry, analyzer, task_response, task_id, retries,
                   polled, results>>

\* data = [{...}] of each method
KeywordsData(keywords, location_code, language_code) ==
    ("location_code" :> location_code) @@ ("language_code" :> language_code)
    @@ ("keywords" :> keywords)

CompetitorsData(domain, location_code, language_code) ==
    ("target" :> domain) @@ ("location_code" :> location_code)
    @@ ("language_code" :> language_code)

BacklinksData(domain, limit) == ("target" :> domain) @@ ("limit" :> limit)

SerpData(keyword, location_code, language_code) ==
    ("keyword" :> keyword) @@ ("location_code" :> location_code)
    @@ ("language_code" :> language_code) @@ ("depth" :> 100)

KeywordIdeasData(seed_keywords, location_code, language_code, limit) ==
    ("location_code" :> location_code) @@ ("language_code" :> language_code)
    @@ ("keywords" :> seed_keywords) @@ ("limit" :> limit)

ContentGapsData(targets, location_code, language_code) ==
    ("targets" :> targets) @@ ("location_code" :> location_code)
    @@ ("language_code" :> language_code) @@ ("filters" :> "not_in")
    @@ ("limit" :> 100)

analyze_keywords(net, sel) ==
    /\ round_trip("analyze_keywords", "keywords_data/google/search_volume/live",
                  KeywordsData("keywords",
                      Passed(SelectedCode(sel), DefaultLocation.location_code),
                      Passed(None_, DefaultLocation.language_code)),
                  net)
    /\ selected' = sel

analyze_competitors(net, sel) ==
    /\ round_trip("analyze_competitors", "domain_analytics/competitors/live",
                  CompetitorsData("domain",
                      Passed(SelectedCode(sel), DefaultLocation.location_code),
                      Passed(None_, DefaultLocation.language_code)),
                  net)
    /\ selected' = sel

analyze_backlinks(net, sel) ==
    /\ round_trip("analyze_backlinks", "backlinks/backlinks/live",
                  BacklinksData("domain", Passed(sel.limit, DefaultLimit)),
                  net)
    /\ selected' = sel

analyze_serp(net, sel) ==
    /\ round_trip("analyze_serp", "serp/google/organic/live/regular",
                  SerpData("keyword",
                      Passed(SelectedCode(sel), DefaultLocation.location_code),
                      Passed(None_, DefaultLocation.language_code)),
                  net)
    /\ selected' = sel

analyze_keyword_ideas(net, sel) ==
    /\ round_trip("analyze_keyword_ideas",
                  "keywords_data/google/keyword_ideas/live",
                  KeywordIdeasData("seed_keywords",
                      Passed(SelectedCode(sel), DefaultLocation.location_code),
                      Passed(None_, DefaultLocation.language_code),
                      Passed(sel.limit, DefaultLimit)),
                  net)
    /\ selected' = sel

analyze_content_gaps(net, sel) ==
    /\ round_trip("analyze_content_gaps",
                  "domain_analytics/keywords_intersections/live",
                  ContentGapsData("targets",
                      Passed(SelectedCode(sel), DefaultLocation.location_code),
                      Passed(None_, DefaultLocation.language_code)),
                  net)
    /\ selected' = sel

(***************************************************************************)
(* analyze_on_page: submit, poll, fetch                                    *)
(***************************************************************************)
LoopContinuesOffByOne(n) == n <= max_retries

LoopContinuesDespiteBudget(n) == n < 2 * max_retries

\* while retries < max_retries
LoopContinues(n) == n < max_retries

StatusReadyAnyStatus(status) == status.t = "str"

\* status == "ready"
StatusReady(status) == status.t = "str" /\ status.v = "ready"

\* task_data = [{...}]
TaskData(url) ==
    ("target" :> url) @@ ("max_crawl_pages" :> 10)
    @@ ("load_resources" :> TRUE) @@ ("enable_javascript" :> TRUE)
    @@ ("custom_js" :> "meta = {}; meta.title = document.title; meta;")

\* task_response = make_request("on_page/task_post", "POST", task_data)
\* up to task_id = task_response["tasks"][0]["id"]
OnPageSubmit(net) ==
    /\ pc = "tabs"
    /\ op' = "analyze_on_page"
    /\ \E r \in {make_request(analyzer, <<"on_page/task_post">>, Str(POST),
                              TaskData("url"), net)} :
       LET id == GetItem(Index0(GetItem(r.ret, "tasks")), "id")
       IN /\ trace' = trace \o r.shown
          /\ last_call' = Called(net, r)
          /\ task_response' = IF IsRaise(r.ret) THEN task_response ELSE r.ret
          /\ IF IsRaise(Usable(r.ret))
             THEN /\ ret' = Usable(r.ret)
                  /\ pc' = "done"
                  /\ UNCHANGED task_id
             ELSE IF ~Usable(r.ret).v
             THEN /\ ret' = None_
                  /\ pc' = "done"
                  /\ UNCHANGED task_id
             ELSE IF IsRaise(id)
             THEN /\ ret' = id
                  /\ pc' = "done"
                  /\ UNCHANGED task_id
             ELSE /\ task_id' = id
                  /\ pc' = "loop"
                  /\ UNCHANGED ret
    /\ retries' = 0
    /\ UNCHANGED <<environ, entry, analyzer, polled, results>>

\* the loop test succeeded: time.sleep(10)
OnPageSleep ==
    /\ pc = "loop"
    /\ LoopContinues(retries)
    /\ trace' = Append(trace, EvSleep(SleepSeconds))
    /\ pc' = "query"
    /\ UNCHANGED <<environ, entry, analyzer, op, last_call, task_response,
                   task_id, retries, polled, results, ret>>

\* status_response = make_request(f"on_page/tasks/{task_id}") and the
\* decision taken on it
OnPageStatus(net) ==
    /\ pc = "query"
    /\ \E r \in {make_request(analyzer, <<"on_page/tasks/", task_id>>,
                              Str(GET), None_, net)} :
       LET status == GetItem(Index0(GetItem(r.ret, "tasks")), "status")
       IN /\ trace' = trace \o r.shown
          /\ last_call' = Called(net, r)
          /\ polled' = IF IsRaise(r.ret) THEN polled ELSE Append(polled, r.ret)
          /\ IF IsRaise(Usable(r.ret))
             THEN /\ ret' = Usable(r.ret)
                  /\ pc' = "done"
                  /\ UNCHANGED retries
             ELSE IF ~Usable(r.ret).v
             THEN /\ retries' = retries + 1
                  /\ pc' = "loop"
                  /\ UNCHANGED ret
             ELSE IF IsRaise(status)
             THEN /\ ret' = status
                  /\ pc' = "done"
                  /\ UNCHANGED retries
             ELSE IF StatusReady(status)
             THEN /\ pc' = "fetch"
                  /\ UNCHANGED <<retries, ret>>
             ELSE /\ retries' = retries + 1
                  /\ pc' = "loop"
                  /\ UNCHANGED ret
    /\ UNCHANGED <<environ, entry, analyzer, op, task_response, task_id,
                   results>>

\* results = make_request(f"on_page/pages/{task_id}"); return results
OnPageResults(net) ==
    /\ pc = "fetch"
    /\ \E r \in {make_request(analyzer, <<"on_page/pages/", task_id>>,
                              Str(GET), None_, net)} :
          /\ trace' = trace \o r.shown
          /\ last_call' = Called(net, r)
          /\ results' = IF IsRaise(r.ret) THEN results ELSE r.ret
          /\ ret' = r.ret
    /\ pc' = "done"
    /\ UNCHANGED <<environ, entry, analyzer, op, task_response, task_id,
                   retries, polled>>

\* the loop test failed: st.error("Timed out ..."); return None
OnPageTimeoutSilent ==
    /\ pc = "loop"
    /\ ~LoopContinues(retries)
    /\ ret' = None_
    /\ pc' = "done"
    /\ UNCHANGED <<environ, entry, analyzer, op, last_call, task_response,
                   task_id, retries, polled, results, trace>>

OnPageTimeout ==
    /\ pc = "loop"
    /\ ~LoopContinues(retries)
    /\ trace' = Append(trace, EvError(MsgTimedOut))
    /\ ret' = None_
    /\ pc' = "done"
    /\ UNCHANGED <<environ, entry, analyzer, op, last_call, task_response,
                   task_id, retries, polled, results>>

(***************************************************************************)
(* Observations on a run of analyze_on_page                                *)
(***************************************************************************)
IsSleep(e) == e.ev = "sleep"
IsRequestTo(e, endpoint) == e.ev = "request" /\ e.url[3] = endpoint
IsSubmit(e) == IsRequestTo(e, "on_page/task_post")
IsStatusQuery(e) == IsRequestTo(e, "on_page/tasks/")
IsResultsFetch(e) == IsRequestTo(e, "on_page/pages/")
IsTimeoutMessage(e) == e = EvError(MsgTimedOut)

At(Test(_)) == {i \in DOMAIN trace : Test(trace[i])}

OnPageCalled == op = "analyze_on_page"
OnPageDone == OnPageCalled /\ pc = "done"

\* a value was returned, and it is not None
IsResult(x) == x.t \notin {"none", "raise", "unset"}

\* the response carries tasks[0].status == "ready"
ReportsReady(r) ==
    /\ r.t = "dict"
    /\ "tasks" \in DOMAIN r.v
    /\ r.v["tasks"].t = "list"
    /\ Len(r.v["tasks"].v) > 0
    /\ r.v["tasks"].v[1].t = "dict"
    /\ "status" \in DOMAIN r.v["tasks"].v[1].v
    /\ r.v["tasks"].v[1].v["status"] = Str("ready")

ReadyAt == {i \in DOMAIN polled : ReportsReady(polled[i])}

\* the five shapes of a malformed status response
Malformed(r) ==
    \/ r.t = "none"
    \/ r.t = "dict" /\ "tasks" \notin DOMAIN r.v
    \/ r.t = "dict" /\ "tasks" \in DOMAIN r.v /\ r.v["tasks"] = List(<<>>)
    \/ /\ r.t = "dict" /\ "tasks" \in DOMAIN r.v
       /\ r.v["tasks"].t = "list" /\ Len(r.v["tasks"].v) > 0
       /\ r.v["tasks"].v[1].t = "dict"
       /\ "status" \notin DOMAIN r.v["tasks"].v[1].v

(***************************************************************************)
(* C1 (as stated): once the task was submitted and the call returns, it    *)
(* returns a result if and only if some status query reported "ready",     *)
(* whatever the results fetch did.                                         *)
(***************************************************************************)
C1_AsStated ==
    (OnPageDone /\ task_id # NoValue /\ ~IsRaise(ret))
        => (IsResult(ret) <=> ReadyAt # {})

(***************************************************************************)
(* C1 (amended): the results fetch is issued if and only if one of the     *)
(* first max_retries status queries reported "ready"; the call then        *)
(* returns what that fetch returned, so it returns a result if and only if *)
(* completion was observed within the budget and the fetch itself          *)
(* succeeded; a call that returns without completion returns None.         *)
(***************************************************************************)
C1_ResultIffReadyAndFetched ==
    OnPageDone =>
        /\ (results # NoValue) <=> (\E i \in ReadyAt : i <= max_retries)
        /\ results # NoValue => ret = results
        /\ IsResult(ret) <=> (ReadyAt # {} /\ IsResult(results))
        /\ (ReadyAt = {} /\ ~IsRaise(ret)) => ret = None_

C1_Witness ==
    /\ OnPageDone
    /\ ReadyAt = {max_retries}
    /\ IsResult(ret)

(***************************************************************************)
(* C2: a call that leaves the loop with the budget used up and no "ready"  *)
(* seen shows the timeout message exactly once and returns None; a call    *)
(* that saw "ready" never shows it.                                        *)
(***************************************************************************)
C2_TimeoutReportedOnce ==
    /\ Cardinality(At(IsTimeoutMessage)) <= 1
    /\ (OnPageDone /\ retries = max_retries /\ ReadyAt = {})
           => (Cardinality(At(IsTimeoutMessage)) = 1 /\ ret = None_)
    /\ ReadyAt # {} => At(IsTimeoutMessage) = {}

C2_Witness ==
    /\ OnPageDone
    /\ Len(polled) = max_retries
    /\ ReadyAt = {}
    /\ trace[Len(trace)] = EvError(MsgTimedOut)

(***************************************************************************)
(* C3 (as stated): after a malformed status response no exception has      *)
(* left the call and the response has been counted as one retry.           *)
(***************************************************************************)
C3_MalformedIsNotReady ==
    (OnPageCalled /\ polled # <<>> /\ Malformed(polled[Len(polled)]))
        => (~IsRaise(ret) /\ retries = Len(polled))

(***************************************************************************)
(* C4 (as stated): at most max_retries status queries; the event before    *)
(* each status query is a 10 second sleep and the one before that is not   *)
(* a sleep; every sleep lasts 10 seconds; the retry counter equals the     *)
(* number of status responses that did not report "ready" and is at most   *)
(* max_retries.                                                            *)
(***************************************************************************)
C4_FixedWaitAndBudget ==
    /\ Cardinality(At(IsStatusQuery)) <= max_retries
    /\ \A i \in At(IsStatusQuery) :
          /\ i > 1 /\ trace[i - 1] = EvSleep(10)
          /\ i > 2 => ~IsSleep(trace[i - 2])
    /\ \A i \in At(IsSleep) : trace[i].n = 10
    /\ retries <= max_retries
    /\ pc \in {"loop", "fetch", "done"} =>
           retries = Cardinality(DOMAIN polled \ ReadyAt)

(***************************************************************************)
(* C5: the task handle is pending from the submission on, ready once a     *)
(* status query reported "ready", timed out once the budget is used up;    *)
(* ready and timed out are final.  One submission precedes every status    *)
(* query, which asks for the id that submission returned; the results are  *)
(* fetched at most once, for that id, right after the status query that    *)
(* reported "ready"; nothing is queried or waited for after "ready" or     *)
(* after the timeout.                                                      *)
(***************************************************************************)
HandleState ==
    IF task_id = NoValue THEN "none"
    ELSE IF ReadyAt # {} THEN "ready"
    ELSE IF retries >= max_retries THEN "timed_out"
    ELSE "pending"

Polling(e) == IsSleep(e) \/ IsStatusQuery(e)

C5_Order ==
    /\ HandleState \in {"none", "pending", "ready", "timed_out"}
    /\ Cardinality(At(IsSubmit)) <= 1
    /\ \A i \in At(IsStatusQuery) :
          /\ \E j \in At(IsSubmit) : j < i
          /\ trace[i].url[4] = task_id
          /\ task_id = task_response.v["tasks"].v[1].v["id"]
    /\ Cardinality(At(IsResultsFetch)) <= 1
    /\ \A i \in At(IsResultsFetch) :
          /\ ReadyAt = {Len(polled)}
          /\ IsStatusQuery(trace[i - 1])
          /\ trace[i - 1].url[4] = trace[i].url[4]
    /\ ReadyAt \subseteq {Len(polled)}
    /\ ReadyAt # {} => \A i \in At(IsSleep) : \E j \in At(IsStatusQuery) : i < j
    /\ \A i \in At(IsTimeoutMessage) : i = Len(trace)

C5_Step ==
    /\ HandleState = "none" => HandleState' \in {"none", "pending"}
    /\ HandleState = "pending" =>
           HandleState' \in {"pending", "ready", "timed_out"}
    /\ HandleState \in {"ready", "timed_out"} =>
           /\ HandleState' = HandleState
           /\ polled' = polled
           /\ \A i \in DOMAIN trace' \ DOMAIN trace : ~Polling(trace'[i])

C5_HandleLifecycle == [](C5_Order) /\ [][C5_Step]_avars

C5_Witness ==
    /\ OnPageDone
    /\ HandleState = "ready"
    /\ Len(polled) > 1
    /\ At(IsResultsFetch) # {}

(***************************************************************************)
(* C6: when the submission returned None (the exchange failed) or a        *)
(* response in which "tasks" is looked up and not found, the call has      *)
(* returned None and nothing followed the submission: no sleep, no status  *)
(* query, no results fetch, no timeout message.                            *)
(***************************************************************************)
SubmissionUnusable ==
    /\ task_response # NoValue
    /\ \/ Falsy(task_response)
       \/ HasKey(task_response, "tasks") = Bool(FALSE)

C6_UnusableSubmissionReturnsNone ==
    (OnPageCalled /\ SubmissionUnusable) =>
        /\ pc = "done"
        /\ ret = None_
        /\ At(IsSleep) = {}
        /\ At(IsStatusQuery) = {}
        /\ At(IsResultsFetch) = {}
        /\ At(IsTimeoutMessage) = {}

C6_Witness ==
    /\ OnPageDone
    /\ task_response = NoTasks
    /\ last_call.failed = FALSE

(***************************************************************************)
(* C7 (as stated): whatever an analyze_* call returns is None or has the   *)
(* top-level key "tasks".                                                  *)
(***************************************************************************)
C7_ReturnedHasTasks ==
    (pc = "done" /\ ~IsRaise(ret)) =>
        (ret = None_ \/ HasKey(ret, "tasks") = Bool(TRUE))

(***************************************************************************)
(* C8 (as stated): no make_request call ends in an exception, on any       *)
(* analyzer the pages build; a call whose HTTP exchange fails returns None *)
(* and shows the request error.                                            *)
(***************************************************************************)
C8_FailedCallReturnsNone ==
    last_call # NoValue =>
        /\ ~IsRaise(last_call.ret)
        /\ last_call.failed =>
              /\ last_call.ret = None_
              /\ \E i \in DOMAIN last_call.shown :
                    last_call.shown[i] = EvError(MsgRequestFailed)

(***************************************************************************)
(* C15: the analyzer's login and password are the explicit arguments where *)
(* these are given and the environment's values otherwise; the header is   *)
(* built from them at construction; from then on no call changes login,    *)
(* password, base_url or headers, and every request sent carries that      *)
(* header and goes to that base_url.                                       *)
(***************************************************************************)
Built == pc \notin {"start", "stopped"}

EnvComplete == Truthy(environ.login) /\ Truthy(environ.password)

C15_Built ==
    Built =>
        /\ (entry = "audit" \/ EnvComplete) =>
              /\ analyzer.login = environ.login
              /\ analyzer.password = environ.password
        /\ (entry = "main" /\ ~EnvComplete) =>
              /\ analyzer.login \in UiLogins /\ Truthy(analyzer.login)
              /\ analyzer.password \in UiPasswords /\ Truthy(analyzer.password)
        /\ "headers" \in analyzer.attrs <=>
              (Truthy(analyzer.login) /\ Truthy(analyzer.password))
        /\ "headers" \in analyzer.attrs =>
              /\ analyzer.headers =
                    <<"Basic", analyzer.login.v, ":", analyzer.password.v>>
              /\ analyzer.base_url = "https://api.dataforseo.com/v3"
        /\ \A i \in DOMAIN trace :
              trace[i].ev = "request" =>
                  /\ "headers" \in analyzer.attrs
                  /\ trace[i].headers = analyzer.headers
                  /\ trace[i].url[1] = analyzer.base_url

C15_Frame == Built => (Built' /\ analyzer' = analyzer /\ environ' = environ)

C15_CredentialsFixed == [](C15_Built) /\ [][C15_Frame]_avars

\* explicit arguments given although the environment has a login; three
\* requests sent
C15_Witness ==
    /\ pc = "done"
    /\ entry = "main"
    /\ environ.login = Str("env_login")
    /\ analyzer.login = Str("ui_login")
    /\ Cardinality({i \in DOMAIN trace : trace[i].ev = "request"}) >= 3

(***************************************************************************)
(* C17: whatever the remote API answers, a call of analyze_on_page that    *)
(* keeps running comes to its end, by a return or by an exception, and     *)
(* has slept at most max_retries times by then.                            *)
(***************************************************************************)
Waits == Cardinality(At(IsSleep))

C17_Terminates ==
    /\ [](Waits <= max_retries)
    /\ [](Len(polled) <= Waits)
    /\ OnPageCalled ~> (pc = "done" /\ ret # NoValue)

\* five waits, over a failed query, a malformed response and pending ones
C17_Witness ==
    /\ OnPageDone
    /\ Waits = max_retries
    /\ polled[1] = None_
    /\ polled[2] = NoTasks
    /\ polled[3] = Tasks(<<Dict("status" :> Str("pending"))>>)
    /\ ret = None_

(***************************************************************************)
(* C19: whatever Location and limit the user selected on the tab, every    *)
(* request an analysis of the main page sends has location_code 2840,      *)
(* language_code "en" and limit 100 wherever its body has these            *)
(* parameters, and each method's body has the ones its signature names.    *)
(***************************************************************************)
Bodies == {trace[i].data : i \in {j \in DOMAIN trace : trace[j].ev = "request"
                                                        /\ trace[j].method = "POST"}}

HasParameters(method) ==
    CASE method \in {"analyze_keywords", "analyze_competitors", "analyze_serp"}
             -> {"location_code", "language_code"}
      [] method = "analyze_backlinks" -> {"limit"}
      [] method \in {"analyze_keyword_ideas", "analyze_content_gaps"}
             -> {"location_code", "language_code", "limit"}
      [] OTHER -> {}

C19_SelectionsNeverSent ==
    entry = "main" =>
        \A body \in Bodies :
            /\ "location_code" \in DOMAIN body => body["location_code"] = 2840
            /\ "language_code" \in DOMAIN body => body["language_code"] = "en"
            /\ "limit" \in DOMAIN body => body["limit"] = 100
            /\ DOMAIN body \cap {"location_code", "language_code", "limit"}
                  = HasParameters(op)

\* Canada and 1000 ideas selected, the defaults sent
C19_Witness ==
    /\ pc = "done"
    /\ op = "analyze_keyword_ideas"
    /\ selected = [location |-> Str("Canada"), limit |-> Num(1000)]
    /\ \E body \in Bodies :
          body["location_code"] = 2840 /\ body["limit"] = 100

(***************************************************************************)
(* The display_* functions: call the analyzer, flatten the response into   *)
(* rows, render.                                                           *)
(***************************************************************************)
VARIABLES
    d_pc,        \* "build": the response is being produced; "done"
    d_fn,        \* the display function called
    d_body,      \* the body the remote API answers with, if it answers
    d_result,    \* result = analyzer.analyze_*(...)
    d_rows,      \* data / backlinks / serp_items / ... after the loops
    d_out,       \* "returned" or the exception that left the function
    d_shown      \* messages, tables and charts rendered, in order

dvars == <<d_pc, d_fn, d_body, d_result, d_rows, d_out, d_shown>>

\* the most tasks, results and items, taken together, in one response
MaxNodes == 6

DisplayFns == {"display_keyword_analysis", "display_competitor_analysis",
               "display_backlink_analysis", "display_serp_analysis",
               "display_keyword_ideas", "display_content_gap_analysis",
               "display_on_page_analysis"}

EvWarning(msg) == [ev |-> "st.warning", msg |-> msg]
EvSuccess(msg) == [ev |-> "st.success", msg |-> msg]
EvWrite(text) == [ev |-> "st.write", text |-> text]
EvMetric(label, value) == [ev |-> "st.metric", label |-> label, value |-> value]
EvTable(n) == [ev |-> "st.dataframe", rows |-> n]
EvChart == [ev |-> "st.plotly_chart"]

\* the leaf items the remote API may send
Organic ==
    Dict(("type" :> Str("organic")) @@ ("keyword" :> Str("kw"))
         @@ ("relevance" :> Num(1))
         @@ ("serp_features" :>
                 OrderedDict(<<"video", "featured_snippet">>,
                             ("video" :> Bool(TRUE))
                             @@ ("featured_snippet" :> None_)))
         @@ ("keywords_data" :>
                 List(<<Dict(("se_domain" :> Str("c.com"))
                             @@ ("position" :> Num(3))),
                        Dict("se_domain" :> Str("d.com"))>>)))
Paid ==
    Dict(("type" :> Str("paid")) @@ ("keyword" :> Str("ad"))
         @@ ("relevance" :> Num(2)) @@ ("url" :> Str("u"))
         @@ ("page_metrics" :>
                 Dict(("h1" :> Dict("count" :> Num(1)))
                      @@ ("content" :> Dict("word_count" :> Num(1234)))
                      @@ ("checks" :>
                              OrderedDict(<<"no_title", "is_https">>,
                                  ("no_title" :> Dict("status" :> Str("failed")))
                                  @@ ("is_https" :> Dict("status" :> Str("ok"))))))))
Bare == Dict("keyword" :> Str("kw"))

ItemKinds == {Organic, Paid, Bare}

\* a task entry as it is first sent: without "result", with an empty one,
\* with a null one
TaskKinds == {EmptyDict, Dict("result" :> List(<<>>)), Dict("result" :> None_)}

\* a result entry as it is first sent: without "items", with an empty list
\* and the summary of the backlinks endpoint
ResultKinds ==
    {EmptyDict,
     Dict(("items" :> List(<<>>))
          @@ ("summary" :> Dict(("total_count" :> Num(1234567))
                                @@ ("referring_domains" :> Num(12)))))}

\* a leaf item whose values have other types than the functions expect
OddItem ==
    Dict(("relevance" :> Str("ab")) @@ ("keywords_data" :> None_)
         @@ ("type" :> Str("organic")) @@ ("serp_features" :> None_)
         @@ ("page_metrics" :>
                 Dict(("content" :> Dict("text_ratio" :> Str("x")))
                      @@ ("checks" :> List(<<>>)))))

OddResult ==
    Dict(("items" :> List(<<OddItem>>))
         @@ ("summary" :> Dict("total_count" :> Str("12"))))

\* bodies of other shapes
OddBodies ==
    {Num(5), Str("tasks"), List(<<Str("tasks")>>), Dict("tasks" :> EmptyDict),
     Dict("tasks" :> Str("ab")), Tasks(<<List(<<>>)>>),
     Tasks(<<Dict("result" :> List(<<Dict("items" :> Str("x"))>>))>>),
     Tasks(<<Dict("result" :> List(<<OddResult>>))>>)}

\* stands for a remote API that cannot be reached
Unreachable == [t |-> "unreachable"]

InitialBodies ==
    {Unreachable, None_, EmptyDict, NoTasks, Tasks(<<>>)} \cup OddBodies

\* x * 100: a number is multiplied, a str or a list is repeated
Times100(x) ==
    IF IsRaise(x) THEN x
    ELSE IF x.t = "num" THEN Num(x.v * 100)
    ELSE IF x.t = "bool" THEN Num(IF x.v THEN 100 ELSE 0)
    ELSE IF x.t = "str" THEN Str(Repeat(x.v, 100))
    ELSE IF x.t = "list" THEN List(Repeat(x.v, 100))
    ELSE Raise("TypeError")

\* stands for "nothing appended" where a loop body leaves an item out
Skip == [t |-> "skip"]

\* the columns a display function copies with item.get(key)
Copied ==
    [display_keyword_analysis |->
         {<<"Keyword", "keyword">>, <<"Search Volume", "search_volume">>,
          <<"CPC", "cpc">>, <<"Competition", "competition">>},
     display_competitor_analysis |->
         {<<"Competitor", "domain">>, <<"Common Keywords", "common_keywords">>,
          <<"SE Traffic", "se_traffic">>},
     display_backlink_analysis |->
         {<<"Source URL", "source_url">>, <<"Target URL", "target_url">>,
          <<"Anchor Text", "anchor">>, <<"Domain Authority", "domain_rank">>,
          <<"Is DoFollow", "dofollow">>, <<"First Seen", "first_seen">>},
     display_serp_analysis |->
         {<<"Position", "rank_absolute">>, <<"URL", "url">>,
          <<"Title", "title">>, <<"Description", "description">>,
          <<"Domain", "domain">>},
     display_keyword_ideas |->
         {<<"Keyword", "keyword">>, <<"Search Volume", "search_volume">>,
          <<"CPC", "cpc">>, <<"Competition", "competition">>,
          <<"Trend", "trend">>},
     display_content_gap_analysis |->
         {<<"Keyword", "keyword">>, <<"Search Volume", "search_volume">>,
          <<"Keyword Difficulty", "keyword_difficulty">>, <<"CPC", "cpc">>}]

CopiedColumns(fn, item) ==
    [c \in {pair[1] : pair \in Copied[fn]} |->
        Get(item, (CHOOSE pair \in Copied[fn] : pair[1] = c)[2], None_)]

\* x == "text"
IsStr(x, text) == x.t = "str" /\ x.v = text

\* display_content_gap_analysis: competitors_ranking of one item
RECURSIVE RankingsLoop(_, _, _)
RankingsLoop(data, i, acc) ==
    IF i > Len(data) THEN List(acc)
    ELSE LET domain_name == Get(data[i], "se_domain", None_)
             position == Get(data[i], "position", None_)
         IN IF IsRaise(domain_name) THEN domain_name
            ELSE RankingsLoop(data, i + 1,
                     IF Truthy(domain_name) /\ Truthy(position)
                     THEN Append(acc, Format(domain_name) \o ": "
                                      \o Format(position))
                     ELSE acc)

competitors_ranking(item) ==
    LET data == Iter(Get(item, "keywords_data", List(<<>>)))
    IN IF IsRaise(data) THEN data ELSE RankingsLoop(data.v, 1, <<>>)

\* the dict appended for one leaf item
Row(fn, item) ==
    LET WithRelevance(rel) ==
            IF IsRaise(rel) THEN rel
            ELSE Dict(CopiedColumns(fn, item) @@ ("Relevance" :> rel))
        WithFeatures(features) ==
            IF features.t # "dict" THEN Raise("AttributeError")
            ELSE Dict(CopiedColumns(fn, item)
                      @@ ("SERP Features" :>
                              Str(JoinStr(", ", Keys(features)))))
        WithRankings(ranking) ==
            IF IsRaise(ranking) THEN ranking
            ELSE Dict(CopiedColumns(fn, item)
                      @@ ("Competitor Rankings" :>
                              Str(JoinStr(", ", ranking.v))))
    IN IF item.t # "dict" THEN Raise("AttributeError")
       ELSE IF fn = "display_competitor_analysis"
       THEN WithRelevance(Times100(Get(item, "relevance", None_)))
       ELSE IF fn = "display_serp_analysis"
       THEN IF IsStr(Get(item, "type", None_), "organic")
            THEN WithFeatures(Get(item, "serp_features", EmptyDict))
            ELSE Skip
       ELSE IF fn = "display_content_gap_analysis"
       THEN WithRankings(competitors_ranking(item))
       ELSE Dict(CopiedColumns(fn, item))

\* what the loops of a display function have collected so far
Collected(rows, summary) == [t |-> "acc", rows |-> rows, summary |-> summary]

\* for x in items: data.append(Row(x))
RECURSIVE LoopItems(_, _, _, _)
LoopItems(fn, items, i, acc) ==
    LET Appended(row) ==
            IF IsRaise(row) THEN row
            ELSE LoopItems(fn, items, i + 1,
                           IF row = Skip THEN acc
                           ELSE Collected(Append(acc.rows, row), acc.summary))
    IN IF i > Len(items) THEN acc ELSE Appended(Row(fn, items[i]))

\* for item in task.get("result", []): for x in item.get("items", []): ...
\* display_backlink_analysis first takes summary = item.get("summary", {})
RECURSIVE LoopResults(_, _, _, _)
LoopResults(fn, res, i, acc) ==
    LET summary == IF fn = "display_backlink_analysis"
                   THEN Get(res[i], "summary", EmptyDict)
                   ELSE acc.summary
        Inner(more) ==
            IF IsRaise(more) THEN more ELSE LoopResults(fn, res, i + 1, more)
        Over(items) ==
            IF IsRaise(items) THEN items
            ELSE Inner(LoopItems(fn, items.v, 1, Collected(acc.rows, summary)))
    IN IF i > Len(res) THEN acc
       ELSE Over(Iter(Get(res[i], "items", List(<<>>))))

\* for task in result.get("tasks", []): ...
RECURSIVE LoopTasks(_, _, _, _)
LoopTasks(fn, tasks, i, acc) ==
    LET Inner(more) ==
            IF IsRaise(more) THEN more ELSE LoopTasks(fn, tasks, i + 1, more)
        Over(res) ==
            IF IsRaise(res) THEN res ELSE Inner(LoopResults(fn, res.v, 1, acc))
    IN IF i > Len(tasks) THEN acc
       ELSE Over(Iter(Get(tasks[i], "result", List(<<>>))))

\* display_on_page_analysis: the keys of on_page_data, in their order
OnPageKeys == <<"URL", "Status Code", "Page Title", "Meta Description", "H1",
                "H2", "Images", "Internal Links", "External Links",
                "Load Time">>

\* on_page_data = {...} of one page_data
OnPageData(page_data) ==
    LET meta == Get(page_data, "meta", EmptyDict)
        metrics == Get(page_data, "page_metrics", EmptyDict)
        timing == Get(page_data, "page_timing", EmptyDict)
        Count(k) == Get(Get(metrics, k, EmptyDict), "count", None_)
        values == <<Get(page_data, "url", None_),
                    Get(page_data, "status_code", None_),
                    Get(meta, "title", None_),
                    Get(meta, "description", None_),
                    Count("h1"), Count("h2"), Count("images"),
                    Count("internal_links"), Count("external_links"),
                    Get(timing, "time_to_interactive", None_)>>
    IN IF \E i \in DOMAIN values : IsRaise(values[i])
       THEN Raise("AttributeError")
       ELSE OrderedDict(OnPageKeys,
                [k \in {OnPageKeys[i] : i \in DOMAIN OnPageKeys} |->
                    values[CHOOSE i \in DOMAIN OnPageKeys : OnPageKeys[i] = k]])

\* on_page_data and page_metrics so far
OnPage(data, metrics) == [t |-> "acc", data |-> data, metrics |-> metrics]

\* if "items" in item and item["items"]: page_data = item["items"][0]; ...
\* the last result that has a non-empty "items" wins
RECURSIVE OnPageResultsLoop(_, _, _)
OnPageResultsLoop(res, i, acc) ==
    LET Taken(page_data, data) ==
            IF IsRaise(page_data) THEN page_data
            ELSE IF IsRaise(data) THEN data
            ELSE OnPageResultsLoop(res, i + 1,
                     OnPage(data, Get(page_data, "page_metrics", EmptyDict)))
        First(items) ==
            IF IsRaise(items) THEN items
            ELSE IF Falsy(items) THEN OnPageResultsLoop(res, i + 1, acc)
            ELSE Taken(Index0(items), OnPageData(Index0(items)))
        Tested(has) ==
            IF IsRaise(has) THEN has
            ELSE IF ~has.v THEN OnPageResultsLoop(res, i + 1, acc)
            ELSE First(GetItem(res[i], "items"))
    IN IF i > Len(res) THEN acc ELSE Tested(HasKey(res[i], "items"))

RECURSIVE OnPageTasksLoop(_, _, _)
OnPageTasksLoop(tasks, i, acc) ==
    LET Inner(more) ==
            IF IsRaise(more) THEN more ELSE OnPageTasksLoop(tasks, i + 1, more)
        Over(res) ==
            IF IsRaise(res) THEN res ELSE Inner(OnPageResultsLoop(res.v, 1, acc))
    IN IF i > Len(tasks) THEN acc
       ELSE Over(Iter(Get(tasks[i], "result", List(<<>>))))

\* the loops of a display function, run on a truthy result
Flatten(fn, result) ==
    LET Over(tasks) ==
            IF IsRaise(tasks) THEN tasks
            ELSE IF fn = "display_on_page_analysis"
                 THEN OnPageTasksLoop(tasks.v, 1, OnPage(EmptyDict, EmptyDict))
                 ELSE LoopTasks(fn, tasks.v, 1, Collected(<<>>, EmptyDict))
    IN Over(Iter(Get(result, "tasks", List(<<>>))))

\* data / backlinks / serp_items / keyword_ideas / gap_keywords, on_page_data
Rows(fn, flat) ==
    IF fn = "display_on_page_analysis" THEN flat.data ELSE List(flat.rows)

\* the number of tasks, results and items of a body
RECURSIVE SumOver(_, _)
SumOver(f, n) == IF n = 0 THEN 0 ELSE f[n] + SumOver(f, n - 1)

ListOf(d, k) ==
    IF d.t = "dict" /\ k \in DOMAIN d.v /\ d.v[k].t = "list"
    THEN d.v[k].v ELSE <<>>

ResultNodes(r) == 1 + Len(ListOf(r, "items"))
TaskNodes(task) ==
    LET res == ListOf(task, "result")
    IN 1 + SumOver([i \in DOMAIN res |-> ResultNodes(res[i])], Len(res))
Nodes(body) ==
    LET tasks == ListOf(body, "tasks")
    IN SumOver([i \in DOMAIN tasks |-> TaskNodes(tasks[i])], Len(tasks))

InitDisplayIn(bodies) ==
    /\ d_pc = "build"
    /\ d_fn = "none"
    /\ d_body \in bodies
    /\ d_result = NoValue
    /\ d_rows = NoValue
    /\ d_out = "none"
    /\ d_shown = <<>>

InitDisplay == InitDisplayIn(InitialBodies)

\* the remote API appends a task entry to the body it will send
SendTask(task) ==
    /\ d_pc = "build"
    /\ d_body.t = "dict" /\ "tasks" \in DOMAIN d_body.v
    /\ d_body.v["tasks"].t = "list"
    /\ Nodes(d_body) < MaxNodes
    /\ d_body' = Dict([d_body.v EXCEPT !["tasks"] = List(Append(@.v, task))])
    /\ UNCHANGED <<d_pc, d_fn, d_result, d_rows, d_out, d_shown>>

\* ... a result entry to the last task
SendResult(result) ==
    /\ d_pc = "build"
    /\ Nodes(d_body) < MaxNodes
    /\ LET tasks == ListOf(d_body, "tasks")
           n == Len(tasks)
       IN /\ n > 0
          /\ tasks[n].t = "dict" /\ "result" \in DOMAIN tasks[n].v
          /\ tasks[n].v["result"].t = "list"
          /\ d_body' = Dict([d_body.v EXCEPT !["tasks"] =
                 List([@.v EXCEPT ![n] =
                     Dict([@.v EXCEPT !["result"] =
                         List(Append(@.v, result))])])])
    /\ UNCHANGED <<d_pc, d_fn, d_result, d_rows, d_out, d_shown>>

\* ... a leaf item to the last result of the last task
SendItem(item) ==
    /\ d_pc = "build"
    /\ Nodes(d_body) < MaxNodes
    /\ LET tasks == ListOf(d_body, "tasks")
           n == Len(tasks)
           res == IF n > 0 THEN ListOf(tasks[n], "result") ELSE <<>>
           m == Len(res)
       IN /\ m > 0
          /\ res[m].t = "dict" /\ "items" \in DOMAIN res[m].v
          /\ res[m].v["items"].t = "list"
          /\ d_body' = Dict([d_body.v EXCEPT !["tasks"] =
                 List([@.v EXCEPT ![n] =
                     Dict([@.v EXCEPT !["result"] =
                         List([@.v EXCEPT ![m] =
                             Dict([@.v EXCEPT !["items"] =
                                 List(Append(@.v, item))])])])])])
    /\ UNCHANGED <<d_pc, d_fn, d_result, d_rows, d_out, d_shown>>

\* st.write("## ...") at the head of each display function
Header ==
    [display_keyword_analysis |-> "## Keyword Analysis",
     display_competitor_analysis |-> "## Competitor Analysis",
     display_backlink_analysis |-> "## Backlink Analysis",
     display_serp_analysis |-> "## SERP Analysis",
     display_keyword_ideas |-> "## Keyword Ideas",
     display_content_gap_analysis |-> "## Content Gap Analysis",
     display_on_page_analysis |-> "## On-Page Analysis"]

\* st.error(...) after "if not result"
MsgFailed ==
    [display_keyword_analysis |-> "Failed to analyze keywords.",
     display_competitor_analysis |-> "Failed to analyze competitors.",
     display_backlink_analysis |-> "Failed to analyze backlinks.",
     display_serp_analysis |-> "Failed to analyze SERP.",
     display_keyword_ideas |-> "Failed to generate keyword ideas.",
     display_content_gap_analysis |-> "Failed to analyze content gaps.",
     display_on_page_analysis |-> "Failed to analyze on-page factors."]

\* st.warning(...) after "if not data"
MsgNoData ==
    [display_keyword_analysis |-> "No keyword data found.",
     display_competitor_analysis |-> "No competitor data found.",
     display_backlink_analysis |-> "No backlink data found.",
     display_serp_analysis |-> "No SERP data found.",
     display_keyword_ideas |-> "No keyword ideas found.",
     display_content_gap_analysis |-> "No content gap keywords found.",
     display_on_page_analysis |-> "No on-page data found."]

NoRowsNever(rows) == FALSE

\* if not data:
NoRows(rows) == Falsy(rows)

Least(a, b) == IF a < b THEN a ELSE b

\* df.head(n) of a frame of so many rows
head(rows, n) == Least(rows, n)

\* st.metric(label, value), or the exception raised in computing the value
Metric(label, value) == IF IsRaise(value) THEN value ELSE EvMetric(label, value)

\* pd.cut(..., bins=[0, 0.33, 0.66, 1]) puts the competition in (0, 0.33]
IsLow(competition) ==
    /\ competition.t = "num"
    /\ 0 < 100 * competition.v /\ 100 * competition.v <= 33

LowCompetition(rows) ==
    Cardinality({i \in DOMAIN rows : IsLow(rows[i].v["Competition"])})

\* display_backlink_analysis after the loops: the summary metrics and the
\* table; "first_seen" is no column of the frame, so no chart follows
BacklinkSteps(summary, n) ==
    <<EvWrite("### Backlink Summary")>>
    \o (IF summary.t # "dict" THEN <<Raise("AttributeError")>>
        ELSE <<Metric("Total Backlinks",
                      FormatThousands(Get(summary, "total_count", Num(0)))),
               Metric("Referring Domains",
                      FormatThousands(Get(summary, "referring_domains", Num(0)))),
               Metric("DoFollow Links",
                      FormatThousands(Get(summary, "dofollow", Num(0)))),
               EvWrite("### Top Backlinks"),
               EvTable(head(n, 20))>>)

\* display_on_page_analysis: if "content" in page_metrics: ...
ContentSteps(content_data) ==
    LET ratio == Format2f(Get(content_data, "text_ratio", Num(0)))
    IN <<EvWrite("### Content Analysis"),
         Metric("Word Count", Get(content_data, "word_count", Num(0))),
         Metric("Text/HTML Ratio",
                IF IsRaise(ratio) THEN ratio ELSE Str(ratio.v \o "%")),
         Metric("Unique Words", Get(content_data, "unique_words", Num(0)))>>

\* display_on_page_analysis: if "checks" in page_metrics: ...
CheckSteps(checks) ==
    <<EvWrite("### Page Issues")>>
    \o (IF checks.t # "dict" THEN <<Raise("AttributeError")>>
        ELSE IF \E k \in DOMAIN checks.v : checks.v[k].t # "dict"
        THEN <<Raise("AttributeError")>>
        ELSE LET issues == {k \in DOMAIN checks.v :
                               IsStr(Get(checks.v[k], "status", None_), "failed")}
             IN IF issues # {} THEN <<EvTable(Cardinality(issues))>>
                ELSE <<EvSuccess("No critical issues found.")>>)

OnPageSteps(flat) ==
    <<EvWrite("### On-Page Factors")>>
    \o [i \in DOMAIN OnPageKeys |->
           EvWrite("**" \o OnPageKeys[i] \o ":** "
                   \o Format(flat.data.v[OnPageKeys[i]]))]
    \o (IF "content" \in DOMAIN flat.metrics.v
        THEN ContentSteps(flat.metrics.v["content"]) ELSE <<>>)
    \o (IF "checks" \in DOMAIN flat.metrics.v
        THEN CheckSteps(flat.metrics.v["checks"]) ELSE <<>>)

\* what a display function does once its rows are there, one st call after
\* the other; pandas and plotly are taken to accept the frame
Steps(fn, flat) ==
    LET n == Len(flat.rows)
    IN CASE fn = "display_keyword_analysis" ->
                <<EvWrite("### Keyword Metrics"), EvTable(n),
                  EvWrite("### Search Volume Comparison"), EvChart,
                  EvWrite("### Cost Per Click (CPC)"), EvChart>>
         [] fn = "display_competitor_analysis" ->
                <<EvWrite("### Top Competitors"), EvTable(n),
                  EvWrite("### Competitor Relevance"), EvChart,
                  EvWrite("### Common Keywords with Competitors"), EvChart>>
         [] fn = "display_backlink_analysis" -> BacklinkSteps(flat.summary, n)
         [] fn = "display_serp_analysis" ->
                <<EvWrite("### Top 10 Results for 'keyword'"),
                  EvTable(head(n, 10)),
                  EvWrite("### Domain Distribution in SERP"), EvChart>>
         [] fn = "display_keyword_ideas" ->
                <<EvWrite("### Top Keyword Ideas by Search Volume"),
                  EvTable(head(n, 50)),
                  EvWrite("### Keyword Ideas by Competition Level"), EvChart,
                  EvWrite("### Top 10 Low Competition Keywords"),
                  EvTable(head(LowCompetition(flat.rows), 10))>>
         [] fn = "display_content_gap_analysis" ->
                <<EvWrite("### Content Gap Keywords"), EvTable(n),
                  EvWrite("### Content Gap Opportunities by Search Volume"),
                  EvChart>>
         [] fn = "display_on_page_analysis" -> OnPageSteps(flat)

\* the steps are taken up to the first that raises
Run(steps) ==
    LET raising == {i \in DOMAIN steps : "t" \in DOMAIN steps[i]}
        first == CHOOSE i \in raising : \A j \in raising : i <= j
    IN IF raising = {} THEN [out |-> "returned", shown |-> steps]
       ELSE [out |-> steps[first].v, shown |-> SubSeq(steps, 1, first - 1)]

\* a display function from the return of its analyzer call on: the rows,
\* how it ended, what it showed
Rendered(fn, result) ==
    LET Ended(rows, run) ==
            IF NoRows(rows)
            THEN [rows |-> rows, out |-> "returned",
                  shown |-> <<EvWarning(MsgNoData[fn])>>]
            ELSE [rows |-> rows, out |-> run.out, shown |-> run.shown]
        Looped(flat) ==
            IF IsRaise(flat)
            THEN [rows |-> NoValue, out |-> flat.v, shown |-> <<>>]
            ELSE Ended(Rows(fn, flat), Run(Steps(fn, flat)))
    IN IF IsRaise(result)
       THEN [rows |-> NoValue, out |-> result.v, shown |-> <<>>]
       ELSE IF Falsy(result)
       THEN [rows |-> NoValue, out |-> "returned",
             shown |-> <<EvError(MsgFailed[fn])>>]
       ELSE Looped(Flatten(fn, result))

\* the analyzer method a display function calls
Analyze(fn, net, sel) ==
    CASE fn = "display_keyword_analysis" -> analyze_keywords(net, sel)
      [] fn = "display_competitor_analysis" -> analyze_competitors(net, sel)
      [] fn = "display_backlink_analysis" -> analyze_backlinks(net, sel)
      [] fn = "display_serp_analysis" -> analyze_serp(net, sel)
      [] fn = "display_keyword_ideas" -> analyze_keyword_ideas(net, sel)
      [] fn = "display_content_gap_analysis" -> analyze_content_gaps(net, sel)

\* the widgets of a tab as they are first drawn
Untouched(fn) ==
    [location |-> IF fn \in {"display_keyword_analysis",
                             "display_competitor_analysis",
                             "display_serp_analysis", "display_keyword_ideas",
                             "display_content_gap_analysis"}
                  THEN Str("United States") ELSE None_,
     limit |-> IF fn \in {"display_backlink_analysis", "display_keyword_ideas"}
               THEN Num(100) ELSE None_]

\* the HTTP exchange with a remote API that answers with body, if it can
\* be reached
Answer(body) == IF body = Unreachable THEN ConnError ELSE Ok(body)

\* ... that takes the on-page task
Accepted(body) ==
    IF body = Unreachable THEN ConnError
    ELSE Ok(Tasks(<<Dict("id" :> Str("t1"))>>))

\* ... that reports the task ready
Ready == Ok(Tasks(<<Dict("status" :> Str("ready"))>>))

\* one of the six display functions with a single round trip, from its
\* header to its return
Display(fn, net) ==
    /\ d_pc = "build"
    /\ Analyze(fn, net, Untouched(fn))
    /\ d_fn' = fn
    /\ d_pc' = "done"
    /\ d_result' = ret'
    /\ \E r \in {Rendered(fn, ret')} :
          /\ d_rows' = r.rows
          /\ d_out' = r.out
          /\ d_shown' = <<EvWrite(Header[fn])>> \o r.shown
    /\ UNCHANGED d_body

\* display_on_page_analysis: the header and the call of analyze_on_page, up
\* to the answer to the submission
DisplayOnPage(net) ==
    /\ d_pc = "build"
    /\ entry = "main"
    /\ OnPageSubmit(net)
    /\ d_fn' = "display_on_page_analysis"
    /\ d_pc' = "called"
    /\ d_shown' = <<EvWrite(Header["display_on_page_analysis"])>>
    /\ UNCHANGED <<d_body, d_result, d_rows, d_out>>

\* analyze_on_page has ended: the rest of display_on_page_analysis
DisplayOnPageReturn ==
    /\ d_pc = "called"
    /\ pc = "done"
    /\ d_pc' = "done"
    /\ d_result' = ret
    /\ \E r \in {Rendered(d_fn, ret)} :
          /\ d_rows' = r.rows
          /\ d_out' = r.out
          /\ d_shown' = d_shown \o r.shown
    /\ UNCHANGED <<d_fn, d_body>>

(***************************************************************************)
(* C9 (as stated): a display function that got a response of the expected  *)
(* shape gets through its loops without an exception and has appended      *)
(* exactly one row per leaf item of the response, none when "tasks",       *)
(* "result" or "items" is absent or empty.                                 *)
(***************************************************************************)
RECURSIVE Concat(_, _)
Concat(f, n) == IF n = 0 THEN <<>> ELSE Concat(f, n - 1) \o f[n]

ItemsUnder(task) ==
    LET res == ListOf(task, "result")
    IN Concat([i \in DOMAIN res |-> ListOf(res[i], "items")], Len(res))

LeafItems(body) ==
    LET tasks == ListOf(body, "tasks")
    IN Concat([i \in DOMAIN tasks |-> ItemsUnder(tasks[i])], Len(tasks))

\* d is a JSON object in which k is absent or a list of JSON objects
Container(d, k) ==
    /\ d.t = "dict"
    /\ k \in DOMAIN d.v =>
          /\ d.v[k].t = "list"
          /\ \A i \in DOMAIN d.v[k].v : d.v[k].v[i].t = "dict"

\* the body has the shape of a response: "tasks", "result" and "items" are
\* absent, empty or lists of objects
Shaped(body) ==
    /\ Container(body, "tasks")
    /\ \A i \in DOMAIN ListOf(body, "tasks") :
          LET task == ListOf(body, "tasks")[i]
          IN /\ Container(task, "result")
             /\ \A j \in DOMAIN ListOf(task, "result") :
                   Container(ListOf(task, "result")[j], "items")

RowFlattening == DisplayFns \ {"display_on_page_analysis"}

\* a value, and a truthy one
Got(x) == x.t \notin {"raise", "unset"} /\ Truthy(x)

C9_OneRowPerLeafItem ==
    (d_pc = "done" /\ d_fn \in RowFlattening /\ Got(d_result)
       /\ Shaped(d_body))
        => /\ d_rows.t = "list"
           /\ Len(d_rows.v) = Len(LeafItems(d_body))

(***************************************************************************)
(* C16: every display function first writes its header.  One whose         *)
(* analyzer call gave nothing then shows its error message and nothing     *)
(* else; one whose loops leave the rows empty shows its warning and        *)
(* nothing else, which is what happens for every response without a leaf   *)
(* item that the loops get through; a table, a chart, a metric or a        *)
(* section is shown only when the rows are not empty, and then without an  *)
(* error or a warning.                                                     *)
(***************************************************************************)
IsRendering(e) ==
    e.ev \in {"st.dataframe", "st.plotly_chart", "st.metric", "st.success",
              "st.write"}
IsMessage(e) == e.ev \in {"st.error", "st.warning"}

C16_ShortCircuitWithMessage ==
    d_pc = "done" =>
        /\ d_shown[1] = EvWrite(Header[d_fn])
        /\ Falsy(d_result) =>
              /\ d_out = "returned"
              /\ Tail(d_shown) = <<EvError(MsgFailed[d_fn])>>
        /\ (Got(d_result) /\ d_rows # NoValue /\ Falsy(d_rows)) =>
              /\ d_out = "returned"
              /\ Tail(d_shown) = <<EvWarning(MsgNoData[d_fn])>>
        /\ (Got(d_result) /\ d_out = "returned" /\ LeafItems(d_result) = <<>>)
              => Falsy(d_rows)
        /\ (\E i \in DOMAIN Tail(d_shown) : IsRendering(Tail(d_shown)[i])) =>
              /\ Got(d_rows)
              /\ \A i \in DOMAIN d_shown : ~IsMessage(d_shown[i])

\* leaf items were sent, none of them organic: no row, the warning
C16_Witness ==
    /\ d_pc = "done"
    /\ d_fn = "display_serp_analysis"
    /\ Len(LeafItems(d_body)) = 2
    /\ d_rows = List(<<>>)
    /\ d_shown = <<EvWrite("## SERP Analysis"),
                   EvWarning("No SERP data found.")>>

(***************************************************************************)
(* document_rag.load_document_text                                         *)
(*                                                                         *)
(* A path is a sequence of characters, a text a sequence of pieces; the    *)
(* empty text is <<>>.                                                     *)
(***************************************************************************)
VARIABLES
    l_pc,        \* "call" before load_document_text runs, "done" after
    filepath,    \* the argument
    file,        \* what is on disk at that path
    l_branch,    \* the extraction branch entered: plain, pdf, docx or none
    l_logged,    \* logger.error was called
    l_ret        \* the text returned, or the exception that left the call

lvars == <<l_pc, filepath, file, l_branch, l_logged, l_ret>>

\* the most pages of a PDF, paragraphs of a DOCX
MaxParts == 2

\* os.sep and os.extsep
Slash == ord("/")
Dot == ord(".")

\* str.rfind(c), counting from 1; 0 when c does not occur
rfind(chars, c) ==
    IF \E i \in DOMAIN chars : chars[i] = c
    THEN CHOOSE i \in DOMAIN chars :
             chars[i] = c /\ \A j \in DOMAIN chars : chars[j] = c => j <= i
    ELSE 0

\* os.path.splitext(p)[1]: from the last dot of the last component, unless
\* only dots precede it there
splitext1(p) ==
    LET sepIndex == rfind(p, Slash)
        dotIndex == rfind(p, Dot)
    IN IF /\ dotIndex > sepIndex
          /\ \E k \in (sepIndex + 1)..(dotIndex - 1) : p[k] # Dot
       THEN SubSeq(p, dotIndex, Len(p))
       ELSE <<>>

\* what is on disk
Missing == [kind |-> "missing"]
TextFile(content) == [kind |-> "text", content |-> content]
PdfFile(pages) == [kind |-> "pdf", pages |-> pages]
DocxFile(paragraphs) == [kind |-> "docx", paragraphs |-> paragraphs]

RECURSIVE SeqsUpTo(_, _)
SeqsUpTo(S, n) ==
    IF n = 0 THEN {<<>>}
    ELSE LET shorter == SeqsUpTo(S, n - 1)
         IN shorter \cup {Append(q, x) : q \in shorter, x \in S}

\* page.extract_text(): None, "", a text, or an exception
PageTexts == {None_, List(<<>>), List(<<"page">>), Raise("PdfReadError")}
ParagraphTexts == {<<>>, <<"para">>}

Files ==
    {Missing, TextFile(<<>>), TextFile(<<"line">>)}
    \cup {PdfFile(pages) : pages \in SeqsUpTo(PageTexts, MaxParts)}
    \cup {DocxFile(paras) : paras \in SeqsUpTo(ParagraphTexts, MaxParts)}

Dirs == {<<>>, Codes("d.x/")}
Stems == {<<>>, Codes("a"), Codes("."), Codes("a.b")}
\* the last four hold a capital E with acute, the dotted capital I, the
\* Kelvin sign, a capital sigma after a capital alpha
Suffixes ==
    {<<>>,
     Codes(".txt"), Codes(".TXT"), Codes(".Txt"),
     Codes(".md"), Codes(".MD"),
     Codes(".pdf"), Codes(".PDF"), Codes(".Pdf"),
     Codes(".docx"), Codes(".DOCX"),
     Codes(".doc"), Codes(".tx"), Codes("txt"),
     Codes(".txt."), Codes(".pdf.bak"),
     <<46, 201>>, <<46, 80, 68, 304>>, <<46, 100, 111, 99, 8490>>,
     <<46, 913, 931>>}

Paths == {d \o st \o su : d \in Dirs, st \in Stems, su \in Suffixes}

\* open(filepath, "r", encoding="utf-8", errors="ignore").read(): the bytes
\* of any existing file decode to some text
ReadText(f) ==
    CASE f.kind = "missing" -> Raise("FileNotFoundError")
      [] f.kind = "text" -> List(f.content)
      [] OTHER -> List(<<"bytes">>)

\* for page in reader.pages: page_text = page.extract_text();
\* if page_text: text += page_text + "\n"
RECURSIVE PagesLoop(_, _, _)
PagesLoop(pages, i, text) ==
    IF i > Len(pages) THEN List(text)
    ELSE IF IsRaise(pages[i]) THEN pages[i]
    ELSE PagesLoop(pages, i + 1,
                   IF Truthy(pages[i]) THEN text \o pages[i].v \o <<"\n">>
                   ELSE text)

\* open(filepath, "rb"), PyPDF2.PdfReader(f) and the loop over its pages
ReadPdf(f) ==
    CASE f.kind = "missing" -> Raise("FileNotFoundError")
      [] f.kind = "pdf" -> PagesLoop(f.pages, 1, <<>>)
      [] OTHER -> Raise("PdfReadError")

\* "\n".join(texts)
RECURSIVE join(_, _)
join(texts, n) ==
    IF n = 0 THEN <<>>
    ELSE IF n = 1 THEN texts[1]
    ELSE join(texts, n - 1) \o <<"\n">> \o texts[n]

\* docx.Document(filepath) and the join of its paragraphs
ReadDocx(f) ==
    CASE f.kind = "docx" -> List(join(f.paragraphs, Len(f.paragraphs)))
      [] OTHER -> Raise("PackageNotFoundError")

DotTxt == Codes(".txt")
DotMd == Codes(".md")
DotPdf == Codes(".pdf")
DotDocx == Codes(".docx")

\* the branch the extension selects
Branch(ext) ==
    IF ext \in {DotTxt, DotMd} THEN "plain"
    ELSE IF ext = DotPdf THEN "pdf"
    ELSE IF ext = DotDocx THEN "docx"
    ELSE "none"

InitLoaderIn(paths, files) ==
    /\ l_pc = "call"
    /\ filepath \in paths
    /\ file \in files
    /\ l_branch = "none"
    /\ l_logged = FALSE
    /\ l_ret = NoValue

InitLoader == InitLoaderIn(Paths, Files)

\* load_document_text(path) with f on disk at that path: the branch entered,
\* whether the failure was logged, the text returned
loaded(path, f) ==
    LET ext == lower(splitext1(path))
        got == CASE Branch(ext) = "plain" -> ReadText(f)
                 [] Branch(ext) = "pdf" -> ReadPdf(f)
                 [] Branch(ext) = "docx" -> ReadDocx(f)
                 [] OTHER -> List(<<>>)
    IN [branch |-> Branch(ext),
        logged |-> IsRaise(got),
        ret |-> IF IsRaise(got) THEN List(<<>>) ELSE got]

load_document_text ==
    /\ l_pc = "call"
    /\ l_pc' = "done"
    /\ l_branch' = loaded(filepath, file).branch
    /\ l_logged' = loaded(filepath, file).logged
    /\ l_ret' = loaded(filepath, file).ret
    /\ UNCHANGED <<filepath, file>>

(***************************************************************************)
(* C10: load_document_text enters the branch named by the extension of the *)
(* path, whatever the case of its letters: plain reading for .txt and .md, *)
(* page extraction for .pdf, paragraph extraction for .docx, none          *)
(* otherwise.  It always returns a text: the file's content when a plain   *)
(* file was read, the empty text for an unrecognized extension and         *)
(* whenever opening, reading or extracting failed.                         *)
(***************************************************************************)
SameLetter(c, low) ==
    c = low \/ (c \in 65..90 /\ c + 32 = low)

\* the path ends with the extension e (given in lower case), and the file
\* name has a character other than a dot before it
HasExtension(path, e) ==
    LET n == Len(path) - Len(e)
    IN /\ n > 0
       /\ \A i \in DOMAIN e : SameLetter(path[n + i], e[i])
       /\ \E k \in 1..n :
             /\ path[k] \notin {Dot, Slash}
             /\ \A j \in k..n : path[j] # Slash

Expected ==
    IF \/ HasExtension(filepath, DotTxt)
       \/ HasExtension(filepath, DotMd) THEN "plain"
    ELSE IF HasExtension(filepath, DotPdf) THEN "pdf"
    ELSE IF HasExtension(filepath, DotDocx) THEN "docx"
    ELSE "none"

ExtractionFails ==
    \/ file.kind = "missing"
    \/ Expected = "pdf" /\ file.kind # "pdf"
    \/ Expected = "pdf" /\ file.kind = "pdf"
         /\ \E i \in DOMAIN file.pages : IsRaise(file.pages[i])
    \/ Expected = "docx" /\ file.kind # "docx"

C10_DispatchAndEmptyOnFailure ==
    l_pc = "done" =>
        /\ l_ret.t = "list"
        /\ l_branch = Expected
        /\ Expected = "none" => (l_ret = List(<<>>) /\ ~l_logged)
        /\ Expected # "none" => (l_logged <=> ExtractionFails)
        /\ l_logged => l_ret = List(<<>>)
        /\ (Expected = "plain" /\ file.kind = "text")
               => l_ret = List(file.content)
        /\ (Expected = "docx" /\ file.kind = "docx" /\ Len(file.paragraphs) = 1)
               => l_ret = List(file.paragraphs[1])
        /\ (Expected = "pdf" /\ file.kind = "pdf" /\ ~l_logged)
               => (l_ret = List(<<>>) <=>
                      \A i \in DOMAIN file.pages : Falsy(file.pages[i]))

C10_Witness ==
    /\ l_pc = "done"
    /\ filepath = Codes("d.x/a.Pdf")
    /\ l_branch = "pdf"
    /\ l_logged
    /\ l_ret = List(<<>>)

(***************************************************************************)
(* document_rag.summarize_text and document_rag.process_folder             *)
(*                                                                         *)
(* The texts of this component are sequences of characters; a file name    *)
(* is a sequence of code points, as the loader takes it.                   *)
(***************************************************************************)
VARIABLES
    f_pc,        \* "walk" while the loops of process_folder run, "done" after
    walk,        \* the files os.walk yields, in walk order
    f_i,         \* the position in walk of the file handled next
    f_texts,     \* what load_document_text returned, file after file
    f_prompts,   \* the calls of llm_text_gen: the file's position, the prompt
    f_replies,   \* what each of these calls returned or raised
    summaries,   \* the list built by process_folder
    f_ret        \* what process_folder returned, or the exception that left it

fvars == <<f_pc, walk, f_i, f_texts, f_prompts, f_replies, summaries, f_ret>>

\* the most files in the folder
MaxFiles == 3

\* text[:4000] and page_text[:4000]
SliceEnd == 4000

\* text[:n]
Slice(text, n) == SubSeq(text, 1, IF Len(text) < n THEN Len(text) ELSE n)

\* a text longer than the slice: 4000 times "a", then "b"
LongText == [i \in 1..(SliceEnd + 1) |-> IF i <= SliceEnd THEN "a" ELSE "b"]

\* os.path.join(root, name) for a relative name
path_join(root, name) ==
    IF root = <<>> THEN name
    ELSE IF root[Len(root)] = Slash THEN root \o name
    ELSE root \o <<Slash>> \o name

\* llm_text_gen(prompt): a text, an empty text, None, or an exception
LlmReplies == {List(<<"s">>), List(<<>>), None_, Raise("Exception")}

\* the files of the folder: the directory os.walk is in, the file's name,
\* what is on disk
FolderEntries ==
    {[root |-> Codes("d"), name |-> Codes("a.txt"), file |-> TextFile(<<"x">>)],
     [root |-> Codes("d"), name |-> Codes("a.txt"), file |-> TextFile(<<>>)],
     [root |-> Codes("d"), name |-> Codes("a.txt"), file |-> Missing],
     [root |-> Codes("d/s"), name |-> Codes("l.MD"),
      file |-> TextFile(LongText)],
     [root |-> Codes("d"), name |-> Codes("b.pdf"),
      file |-> PdfFile(<<Raise("PdfReadError")>>)],
     [root |-> Codes("d"), name |-> Codes("c.docx"),
      file |-> DocxFile(<<<<>>, <<>>>>)]}

\* a name inside a text: its characters, one by one
Characters(chars) == [i \in DOMAIN chars |-> Printed(<<chars[i]>>)]

\* the prompt summarize_text builds
SummaryPrompt(text, filename) ==
    <<"Provide a brief summary for the following document '">>
    \o Characters(filename)
    \o <<"':\n">> \o text \o <<"\n\nSummary:">>

\* summarize_text(text, filename), llm_text_gen answering reply: the value
\* returned and the prompts sent
summarize_text(text, filename, reply) ==
    IF Falsy(List(text)) THEN [ret |-> List(<<>>), sent |-> <<>>]
    ELSE [ret |-> IF IsRaise(reply) THEN List(<<>>) ELSE reply,
          sent |-> <<SummaryPrompt(text, filename)>>]

KeepsAnySummary(summary) == summary.t # "none"

\* if summary:
Keeps(summary) == Truthy(summary)

\* f"### {name}\n{summary}"
SummaryEntry(name, summary) ==
    <<"#", "#", "#", " ">> \o Characters(name) \o <<"\n">> \o summary

\* sep.join(texts)
RECURSIVE join_with(_, _, _)
join_with(sep, texts, n) ==
    IF n = 0 THEN <<>>
    ELSE IF n = 1 THEN texts[1]
    ELSE join_with(sep, texts, n - 1) \o sep \o texts[n]

InitFolderIn(entries, n) ==
    /\ f_pc = "walk"
    /\ walk \in SeqsUpTo(entries, n)
    /\ f_i = 1
    /\ f_texts = <<>>
    /\ f_prompts = <<>>
    /\ f_replies = <<>>
    /\ summaries = <<>>
    /\ f_ret = NoValue

InitFolder == InitFolderIn(FolderEntries, MaxFiles)

\* one pass of the inner loop of process_folder
ProcessFile(reply) ==
    /\ f_pc = "walk"
    /\ f_i <= Len(walk)
    /\ LET name == walk[f_i].name
           path == path_join(walk[f_i].root, name)
           text == loaded(path, walk[f_i].file).ret.v
           called == IF Truthy(List(text))
                     THEN summarize_text(Slice(text, SliceEnd), name, reply)
                     ELSE [ret |-> None_, sent |-> <<>>]
       IN /\ f_texts' = Append(f_texts, text)
          /\ f_prompts' = f_prompts \o
                 [k \in DOMAIN called.sent |->
                     [file |-> f_i, prompt |-> called.sent[k]]]
          /\ f_replies' = f_replies \o [k \in DOMAIN called.sent |-> reply]
          /\ summaries' = IF Truthy(List(text)) /\ Keeps(called.ret)
                          THEN Append(summaries,
                                      SummaryEntry(name, called.ret.v))
                          ELSE summaries
    /\ f_i' = f_i + 1
    /\ UNCHANGED <<f_pc, walk, f_ret>>

\* return "\n\n".join(summaries)
FolderReturn ==
    /\ f_pc = "walk"
    /\ f_i > Len(walk)
    /\ f_ret' = List(join_with(<<"\n", "\n">>, summaries, Len(summaries)))
    /\ f_pc' = "done"
    /\ UNCHANGED <<walk, f_i, f_texts, f_prompts, f_replies, summaries>>

(***************************************************************************)
(* C11: process_folder never ends in an exception and handles every file   *)
(* of the walk.  A file whose extraction fails, or whose text is empty,    *)
(* causes no text-generation call and no entry.  Every other file causes   *)
(* exactly one call, in walk order, whatever the earlier calls did.  The   *)
(* list holds one entry "### name\nsummary" per call that returned a       *)
(* non-empty summary, in walk order, and the output is these entries       *)
(* separated by blank lines.                                               *)
(***************************************************************************)
ExtractionFailed(e) ==
    \/ e.file.kind = "missing"
    \/ e.file.kind = "pdf" /\ \E i \in DOMAIN e.file.pages : IsRaise(e.file.pages[i])

GotSummary(k) == f_replies[k].t = "list" /\ f_replies[k].v # <<>>

ExpectedSummaries ==
    Concat([k \in DOMAIN f_prompts |->
               IF GotSummary(k)
               THEN <<(<<"#", "#", "#", " ">>
                       \o Characters(walk[f_prompts[k].file].name)
                       \o <<"\n">> \o f_replies[k].v)>>
               ELSE <<>>],
           Len(f_prompts))

C11_FailuresSkipOneFile ==
    /\ Len(f_texts) = f_i - 1
    /\ f_pc = "done" => (f_ret.t = "list" /\ Len(f_texts) = Len(walk))
    /\ \A i \in DOMAIN f_texts : ExtractionFailed(walk[i]) => f_texts[i] = <<>>
    /\ \A i \in DOMAIN f_texts :
          Cardinality({k \in DOMAIN f_prompts : f_prompts[k].file = i})
              = IF f_texts[i] = <<>> THEN 0 ELSE 1
    /\ \A k \in DOMAIN f_prompts : f_prompts[k].file \in DOMAIN f_texts
    /\ \A j, k \in DOMAIN f_prompts :
          j < k => f_prompts[j].file < f_prompts[k].file
    /\ Len(f_replies) = Len(f_prompts)
    /\ summaries = ExpectedSummaries
    /\ f_pc = "done" =>
          f_ret.v = Concat([k \in DOMAIN summaries |->
                               IF k = 1 THEN summaries[k]
                               ELSE <<"\n", "\n">> \o summaries[k]],
                           Len(summaries))

\* a missing file, then a file whose text-generation call fails, then a
\* file that is summarized
C11_Witness ==
    /\ f_pc = "done"
    /\ Len(walk) = 3
    /\ walk[1].file = Missing
    /\ Len(f_prompts) = 2
    /\ IsRaise(f_replies[1])
    /\ Len(summaries) = 1
    /\ f_ret = List(<<"#", "#", "#", " ", "a", ".", "t", "x", "t", "\n", "s">>)

(***************************************************************************)
(* dataforseo_tools.run_dataforseo_audit, from the button to its end       *)
(*                                                                         *)
(* The analyzer and its requests are the ones above: the on-page analysis  *)
(* of the audit runs OnPageSubmit .. OnPageTimeout, and everything sent    *)
(* or shown is appended to trace.                                          *)
(***************************************************************************)
VARIABLES
    u_pc,          \* "form", then the step of the audit that runs next:
                   \* "on_page", "ideas", "fetch", "suggest"; at the end
                   \* "returned" or "raised"
    url,           \* the text input "Enter page URL to analyze:"
    seed_keywords, \* the text input "Seed keywords for additional ideas"
    page_text,     \* page_text = _fetch_page_text(url)
    u_out          \* the exception that left run_dataforseo_audit

uvars == <<u_pc, url, seed_keywords, page_text, u_out>>

EvCall(fn, arg) == [ev |-> "call", fn |-> fn, arg |-> arg]
EvMarkdown(text) == [ev |-> "st.markdown", text |-> text]

MsgNoUrl == "Please provide a valid URL"
MsgNoPageText == "Unable to fetch page text for AI suggestions."

\* str.strip()
RECURSIVE lstrip(_)
lstrip(chars) ==
    IF chars # <<>> /\ chars[1] \in Whitespace THEN lstrip(Tail(chars))
    ELSE chars

RECURSIVE rstrip(_)
rstrip(chars) ==
    IF chars # <<>> /\ chars[Len(chars)] \in Whitespace
    THEN rstrip(SubSeq(chars, 1, Len(chars) - 1))
    ELSE chars

strip(chars) == rstrip(lstrip(chars))

\* str.split(sep) for a one character separator
RECURSIVE split(_, _)
split(chars, sep) ==
    IF \E i \in DOMAIN chars : chars[i] = sep
    THEN LET i == CHOOSE i \in DOMAIN chars :
                      chars[i] = sep /\ \A j \in 1..(i - 1) : chars[j] # sep
         IN <<SubSeq(chars, 1, i - 1)>>
            \o split(SubSeq(chars, i + 1, Len(chars)), sep)
    ELSE <<chars>>

Comma == ord(",")

\* [k.strip() for k in seed_keywords.split(",") if k.strip()]
Seeds(text) ==
    LET parts == split(text, Comma)
        stripped == [i \in DOMAIN parts |-> strip(parts[i])]
    IN SelectSeq(stripped, LAMBDA k : k # <<>>)

Urls == {Str(<<>>), Str(<<" ">>), Str(<<"h", "t", "t", "p", ":", "/", "/", "x">>)}

\* the last four hold a line tabulation, a no-break space, a unit
\* separator, an ideographic space
SeedInputs == {<<>>, Codes(" , "), Codes("a"), Codes(" a ,,b c,"),
               <<11>>, <<160, 44, 98, 11>>, <<32, 31, 32>>,
               <<97, 44, 12288>>}

\* a fetched document: tags and the texts between them
Tag == [tag |-> "p"]
Text(chars) == [text |-> chars]

Documents == {<<>>, <<Tag>>, <<Text(<<"x">>)>>, <<Text(<<"\n">>)>>,
              <<Tag, Text(<<"a">>), Tag, Text(<<"b">>)>>,
              <<Text(LongText)>>}

\* soup.get_text("\n")
get_text(document) ==
    LET texts == SelectSeq(document, LAMBDA node : "text" \in DOMAIN node)
    IN join_with(<<"\n">>, [i \in DOMAIN texts |-> texts[i].text], Len(texts))

\* requests.get(url, timeout=10): a URL without a scheme is refused
PageNet(u) ==
    IF u.v # <<>> /\ u.v[1] = "h"
    THEN {ConnError, HttpError} \cup {Ok(d) : d \in Documents}
    ELSE {ConnError}

\* _fetch_page_text(url)
fetch_page_text(net) == IF net.kind = "ok" THEN get_text(net.body) ELSE <<>>

PromptHead ==
    <<"Analyze the following web page content and suggest SEO keywords, blog topic ideas, and improvements to increase organic visibility.\n\n">>

InitAuditIn(urls, inputs) ==
    /\ u_pc = "form"
    /\ url \in urls
    /\ seed_keywords \in inputs
    /\ page_text = NoValue
    /\ u_out = NoValue

InitAudit == InitAuditIn(Urls, SeedInputs)

\* the button is pressed: the URL test, DataForSEOAnalyzer(), and the call
\* of display_on_page_analysis
AuditPress ==
    /\ u_pc = "form"
    /\ IF Falsy(url)
       THEN /\ trace' = Append(trace, EvError(MsgNoUrl))
            /\ u_pc' = "returned"
            /\ UNCHANGED <<environ, entry, analyzer, pc, op, last_call,
                           task_response, task_id, retries, polled, results,
                           ret>>
       ELSE /\ pc = "start"
            /\ entry' = "audit"
            /\ analyzer' = NewAnalyzer(None_, None_, environ).obj
            /\ trace' = trace \o NewAnalyzer(None_, None_, environ).shown
                        \o <<EvCall("display_on_page_analysis", url.v),
                              EvWrite(Header["display_on_page_analysis"])>>
            /\ pc' = "tabs"
            /\ u_pc' = "on_page"
            /\ UNCHANGED <<environ, op, last_call, task_response, task_id,
                           retries, polled, results, ret>>
    /\ UNCHANGED <<url, seed_keywords, page_text, u_out>>

\* if seeds:
SeedsGiven(text) == Seeds(text) # <<>>

\* analyze_on_page has ended: the rest of display_on_page_analysis, then
\* the seeds
AuditOnPageShown ==
    /\ u_pc = "on_page"
    /\ pc = "done"
    /\ \E r \in {Rendered("display_on_page_analysis", ret)} :
          IF r.out # "returned"
          THEN /\ u_out' = Raise(r.out)
               /\ u_pc' = "raised"
               /\ trace' = trace \o r.shown
          ELSE /\ UNCHANGED u_out
               /\ IF SeedsGiven(seed_keywords)
                  THEN /\ u_pc' = "ideas"
                       /\ trace' = trace \o r.shown
                              \o <<EvCall("display_keyword_ideas",
                                          Seeds(seed_keywords))>>
                  ELSE /\ u_pc' = "fetch"
                       /\ trace' = trace \o r.shown
    /\ UNCHANGED <<environ, entry, analyzer, pc, op, last_call, task_response,
                   task_id, retries, polled, results, ret>>
    /\ UNCHANGED <<url, seed_keywords, page_text>>

\* display_keyword_ideas(analyzer, seeds)
AuditKeywordIdeas(net) ==
    /\ u_pc = "ideas"
    /\ \E call \in {make_request(analyzer,
                                 <<"keywords_data/google/keyword_ideas/live">>,
                                 Str(POST),
                                 KeywordIdeasData(Seeds(seed_keywords),
                                     DefaultLocation.location_code,
                                     DefaultLocation.language_code, DefaultLimit),
                                 net)} :
       \E result \in {IF IsRaise(Usable(call.ret)) THEN Usable(call.ret)
                       ELSE IF ~Usable(call.ret).v THEN None_
                       ELSE call.ret} :
       \E r \in {Rendered("display_keyword_ideas", result)} :
          /\ last_call' = Called(net, call)
          /\ trace' = trace \o <<EvWrite(Header["display_keyword_ideas"])>>
                            \o call.shown \o r.shown
          /\ IF r.out # "returned"
             THEN /\ u_out' = Raise(r.out)
                  /\ u_pc' = "raised"
             ELSE /\ UNCHANGED u_out
                  /\ u_pc' = "fetch"
    /\ UNCHANGED <<environ, entry, analyzer, pc, op, task_response, task_id,
                   retries, polled, results, ret>>
    /\ UNCHANGED <<url, seed_keywords, page_text>>

\* page_text = _fetch_page_text(url) and the test of it
AuditFetch(net) ==
    /\ u_pc = "fetch"
    /\ page_text' = fetch_page_text(net)
    /\ IF fetch_page_text(net) # <<>>
       THEN /\ u_pc' = "suggest"
            /\ trace' = Append(trace, EvCall("requests.get", url.v))
       ELSE /\ u_pc' = "returned"
            /\ trace' = trace \o <<EvCall("requests.get", url.v),
                                   EvWarning(MsgNoPageText)>>
    /\ UNCHANGED <<environ, entry, analyzer, pc, op, last_call, task_response,
                   task_id, retries, polled, results, ret>>
    /\ UNCHANGED <<url, seed_keywords, u_out>>

\* suggestions = llm_text_gen(prompt) and the two st.markdown
AuditSuggest(reply) ==
    /\ u_pc = "suggest"
    /\ LET prompt == PromptHead \o Slice(page_text, SliceEnd)
       IN IF IsRaise(reply)
          THEN /\ trace' = Append(trace, EvCall("llm_text_gen", prompt))
               /\ u_out' = reply
               /\ u_pc' = "raised"
          ELSE /\ trace' = trace \o <<EvCall("llm_text_gen", prompt),
                                      EvMarkdown(<<"## AI Suggestions">>),
                                      EvMarkdown(reply)>>
               /\ u_pc' = "returned"
               /\ UNCHANGED u_out
    /\ UNCHANGED <<environ, entry, analyzer, pc, op, last_call, task_response,
                   task_id, retries, polled, results, ret>>
    /\ UNCHANGED <<url, seed_keywords, page_text>>

(***************************************************************************)
(* C18 (as stated): with an empty URL the audit shows the error and does   *)
(* nothing else.  With any other URL its calls are, in this order and each *)
(* at most once: the on-page analysis, the keyword ideas, the page fetch,  *)
(* the text generation.  The keyword ideas are asked for exactly when some *)
(* seed between the commas is not blank; every request to the API precedes *)
(* the page fetch; the text generation is called only after a fetch that   *)
(* gave a non-empty text, with a prompt that ends with the first 4000      *)
(* characters of it and nothing more; a fetch that gave no text is         *)
(* followed by the warning and by no text-generation call.  An audit that  *)
(* has ended has fetched the page, and has called the text generation if   *)
(* the page had text.                                                      *)
(***************************************************************************)
CallsOf(fn) == {i \in DOMAIN trace : trace[i].ev = "call" /\ trace[i].fn = fn}
AllCalls == {i \in DOMAIN trace : trace[i].ev = "call"}

Rank(fn) ==
    CASE fn = "display_on_page_analysis" -> 1
      [] fn = "display_keyword_ideas" -> 2
      [] fn = "requests.get" -> 3
      [] fn = "llm_text_gen" -> 4

NonBlankSeed ==
    \E i \in DOMAIN seed_keywords :
        seed_keywords[i] \notin Whitespace \cup {Comma}

UpTo4000(n) == IF n < 4000 THEN n ELSE 4000

C18_AuditSteps ==
    /\ (Falsy(url) /\ u_pc # "form") =>
          (u_pc = "returned" /\ trace = <<EvError("Please provide a valid URL")>>)
    /\ Truthy(url) =>
          /\ \A i, j \in AllCalls : i < j => Rank(trace[i].fn) < Rank(trace[j].fn)
          /\ u_pc # "form" => CallsOf("display_on_page_analysis") # {}
          /\ CallsOf("display_keyword_ideas") # {} => NonBlankSeed
          /\ (NonBlankSeed /\ CallsOf("requests.get") # {}) =>
                CallsOf("display_keyword_ideas") # {}
          /\ \A i \in DOMAIN trace : \A j \in CallsOf("requests.get") :
                trace[i].ev = "request" => i < j
          /\ \A i \in CallsOf("requests.get") : trace[i].arg = url.v
          /\ \A i \in CallsOf("llm_text_gen") :
                /\ CallsOf("requests.get") # {}
                /\ page_text # <<>>
                /\ Len(trace[i].arg) = 1 + UpTo4000(Len(page_text))
                /\ \A k \in 1..UpTo4000(Len(page_text)) :
                      trace[i].arg[1 + k] = page_text[k]
          /\ \A i \in DOMAIN trace :
                trace[i] = EvWarning("Unable to fetch page text for AI suggestions.")
                    => /\ page_text = <<>>
                       /\ i = Len(trace)
                       /\ i - 1 \in CallsOf("requests.get")
          /\ u_pc \in {"returned", "raised"} =>
                /\ CallsOf("requests.get") # {}
                /\ page_text # <<>> => CallsOf("llm_text_gen") # {}
                /\ page_text = <<>> =>
                      trace[Len(trace)] =
                          EvWarning("Unable to fetch page text for AI suggestions.")

(***************************************************************************)
(* api/index.py: the bootstrap HTTP server                                 *)
(***************************************************************************)
VARIABLES
    b_pc,        \* "import": the module is being loaded; "idle": the server
                 \* waits for a request; "launched": do_GET has started the
                 \* child and has not answered yet; "crashed": import failed
    env_port,    \* os.getenv("PORT"): None or a string
    PORT,        \* the module global
    b_raised,    \* the exception that ended the script, None while it runs
    b_events,    \* requests received, processes started, responses sent
    b_children   \* the processes started, each "running" or "exited"

bvars == <<b_pc, env_port, PORT, b_raised, b_events, b_children>>

\* the most requests one server run receives
MaxRequests == 3

DefaultPort == 3000

\* the most digits int() converts (sys.int_info.default_max_str_digits)
MaxStrDigits == 4300

\* a decimal digit of any script, and its value
IsDigit(c) == \E z \in DecimalZeros : z <= c /\ c <= z + 9
DigitValue(c) == c - (CHOOSE z \in DecimalZeros : z <= c /\ c <= z + 9)

\* the value of a string of decimal digits
RECURSIVE int(_, _)
int(digits, n) ==
    IF n = 0 THEN 0 ELSE 10 * int(digits, n - 1) + DigitValue(digits[n])

\* an int of Python has no width: one of ten digits or more is kept as its
\* sign and the values of its digits
BigNum(negative, digits) ==
    [t |-> "num", negative |-> negative, digits |-> digits]
IsBig(x) == "digits" \in DOMAIN x

\* digits without its leading zeros
Significant(digits) ==
    LET nonzero == {i \in DOMAIN digits : DigitValue(digits[i]) # 0}
    IN IF nonzero = {} THEN <<>>
       ELSE SubSeq(digits, SetMin(nonzero), Len(digits))

\* chars without the characters of space at its two ends
Between(chars, space) ==
    LET kept == {i \in DOMAIN chars : chars[i] \notin space}
    IN IF kept = {} THEN <<>> ELSE SubSeq(chars, SetMin(kept), SetMax(kept))

Plus == ord("+")
Minus == ord("-")
Underscore == ord("_")

\* int(chars): white space around, a sign, digits with single underscores
\* between them, no more than MaxStrDigits of them; ValueError otherwise
ParseInt(chars) ==
    LET s == Between(chars, IntWhitespace)
        signed == s # <<>> /\ s[1] \in {Plus, Minus}
        body == IF signed THEN Tail(s) ELSE s
        digits == SelectSeq(body, LAMBDA c : c # Underscore)
        negative == signed /\ s[1] = Minus
        Value(kept) ==
            IF Len(kept) > 9
            THEN BigNum(negative, [i \in DOMAIN kept |-> DigitValue(kept[i])])
            ELSE Num(IF negative THEN 0 - int(kept, Len(kept))
                     ELSE int(kept, Len(kept)))
    IN IF /\ body # <<>>
          /\ \A i \in DOMAIN body :
                \/ IsDigit(body[i])
                \/ /\ body[i] = Underscore
                   /\ i > 1 /\ i < Len(body)
                   /\ IsDigit(body[i - 1]) /\ IsDigit(body[i + 1])
          /\ Len(digits) <= MaxStrDigits
       THEN Value(Significant(digits))
       ELSE Raise("ValueError")

\* int(os.getenv("PORT", 3000))
ParsePort(value) ==
    IF value = None_ THEN Num(DefaultPort) ELSE ParseInt(value.v)

\* the last five hold a line tabulation, a no-break space, a unit
\* separator, an Arabic-Indic three, a Devanagari three and fullwidth digits
EnvPorts == {None_, Str(Codes("8080")), Str(Codes("080")), Str(Codes("ab")),
             Str(<<>>), Str(<<32, 56, 48, 10>>), Str(Codes("+80")),
             Str(Codes("8_0")), Str(Codes("8__0")), Str(Codes("-1")),
             Str(Codes("70000")), Str(Codes("0")),
             Str(<<11, 56, 48>>), Str(<<56, 48, 160>>), Str(<<31, 56, 48>>),
             Str(<<1635>>), Str(<<2409>>), Str(<<65304, 65296>>)}

\* the targets of the requests received, each "GET <target> HTTP/1.1": a
\* target is what stands between the blanks of the request line
RequestTargets ==
    {Codes("/"), Codes("/index.html"), Codes("/?launch=1"), Codes("//"),
     Codes("///"), Codes("//x"), Codes("*")}

Root == Codes("/")

\* self.path as the request handler of http.server sets it before it calls
\* do_GET: a target that starts with "//" keeps one leading slash,
\* "/" + target.lstrip("/")
RequestPath(target) ==
    IF Len(target) >= 2 /\ target[1] = Slash /\ target[2] = Slash
    THEN LET kept == {i \in DOMAIN target : target[i] # Slash}
         IN IF kept = {} THEN Root
            ELSE Root \o SubSeq(target, SetMin(kept), Len(target))
    ELSE target

CmdDefaultPort(port) ==
    <<"streamlit", "run", "alwrity.py", "--server.port", str(DefaultPort),
      "--server.address", "0.0.0.0">>

\* cmd, for PORT == port
Cmd(port) ==
    <<"streamlit", "run", "alwrity.py", "--server.port", str(port),
      "--server.address", "0.0.0.0">>

IsRootOrQuery(path) == path \in {Root, Codes("/?launch=1")}

\* self.path == "/"
IsRoot(path) == path = Root

\* what send_error(404, 'Not Found') writes: http.server's error page
NotFoundPage ==
    "<!DOCTYPE HTML>\n<html lang=\"en\">\n    <head>\n"
    \o "        <meta charset=\"utf-8\">\n"
    \o "        <title>Error response</title>\n    </head>\n    <body>\n"
    \o "        <h1>Error response</h1>\n"
    \o "        <p>Error code: 404</p>\n"
    \o "        <p>Message: Not Found.</p>\n"
    \o "        <p>Error code explanation: 404 - Nothing matches the given URI.</p>\n"
    \o "    </body>\n</html>\n"

\* a request: the target the client sent, self.path in do_GET
EvGet(n, target) ==
    [ev |-> "GET", n |-> n, target |-> target, path |-> RequestPath(target)]
EvPopen(n, cmd) == [ev |-> "Popen", n |-> n, cmd |-> cmd]
EvRaised(n, e) == [ev |-> "raised", n |-> n, e |-> e]
EvResponse(n, status, message, ctype, body) ==
    [ev |-> "response", n |-> n, status |-> status, message |-> message,
     ctype |-> ctype, body |-> body]

Received == Cardinality({i \in DOMAIN b_events : b_events[i].ev = "GET"})

InitBootstrapIn(ports) ==
    /\ b_pc = "import"
    /\ env_port \in ports
    /\ PORT = NoValue
    /\ b_raised = None_
    /\ b_events = <<>>
    /\ b_children = <<>>

InitBootstrap == InitBootstrapIn(EnvPorts)

\* the ports bind() takes
PortRange == 0..65535

\* the script is run: PORT = int(os.getenv("PORT", 3000)), then
\* HTTPServer(('', PORT), Handler).serve_forever(); the system gives the
\* port (bound) or refuses it because it is taken or privileged
Serve(bound) ==
    /\ b_pc = "import"
    /\ PORT' = IF IsRaise(ParsePort(env_port)) THEN PORT
               ELSE ParsePort(env_port)
    /\ IF IsRaise(ParsePort(env_port))
       THEN /\ b_pc' = "crashed"
            /\ b_raised' = ParsePort(env_port)
       ELSE IF \/ IsBig(ParsePort(env_port))
               \/ ParsePort(env_port).v \notin PortRange
       THEN /\ b_pc' = "crashed"
            /\ b_raised' = Raise("OverflowError")
       ELSE IF ~bound
       THEN /\ b_pc' = "crashed"
            /\ b_raised' = Raise("OSError")
       ELSE /\ b_pc' = "idle"
            /\ b_raised' = None_
    /\ UNCHANGED <<env_port, b_events, b_children>>

\* do_GET, self.path "/": up to subprocess.Popen(cmd), which returns at once
\* when the system starts the program and raises OSError when it cannot;
\* the exception ends the handler without a response, the server goes on
DoGetLaunch(target, started) ==
    /\ b_pc = "idle"
    /\ Received < MaxRequests
    /\ IsRoot(RequestPath(target))
    /\ IF started
       THEN /\ b_events' = b_events \o <<EvGet(Received + 1, target),
                                        EvPopen(Received + 1, Cmd(PORT.v))>>
            /\ b_children' = Append(b_children, "running")
            /\ b_pc' = "launched"
       ELSE /\ b_events' = b_events \o <<EvGet(Received + 1, target),
                                        EvPopen(Received + 1, Cmd(PORT.v)),
                                        EvRaised(Received + 1, "OSError")>>
            /\ UNCHANGED <<b_children, b_pc>>
    /\ UNCHANGED <<env_port, PORT, b_raised>>

\* do_GET, path "/": send_response(200) up to wfile.write
DoGetRespond ==
    /\ b_pc = "launched"
    /\ b_events' = Append(b_events,
                          EvResponse(Received, 200, "OK", "text/plain",
                                     "Streamlit app launching..."))
    /\ b_pc' = "idle"
    /\ UNCHANGED <<env_port, PORT, b_raised, b_children>>

\* do_GET, any other self.path: send_error(404, 'Not Found')
DoGetNotFound(target) ==
    /\ b_pc = "idle"
    /\ Received < MaxRequests
    /\ ~IsRoot(RequestPath(target))
    /\ b_events' = b_events \o <<EvGet(Received + 1, target),
                                 EvResponse(Received + 1, 404, "Not Found",
                                            "text/html;charset=utf-8",
                                            NotFoundPage)>>
    /\ UNCHANGED <<b_pc, env_port, PORT, b_raised, b_children>>

\* a started process ends on its own (the port is taken, the script fails)
ChildExits(k) ==
    /\ k \in DOMAIN b_children
    /\ b_children[k] = "running"
    /\ b_children' = [b_children EXCEPT ![k] = "exited"]
    /\ UNCHANGED <<b_pc, env_port, PORT, b_raised, b_events>>

(***************************************************************************)
(* Observations on a run of the bootstrap server                           *)
(***************************************************************************)
Gets == {i \in DOMAIN b_events : b_events[i].ev = "GET"}
Launches == {i \in DOMAIN b_events : b_events[i].ev = "Popen"}
Responses == {i \in DOMAIN b_events : b_events[i].ev = "response"}

\* the Popen calls that raised, those that started a process
Refused ==
    {i \in Launches : i < Len(b_events) /\ b_events[i + 1].ev = "raised"}
Started == Launches \ Refused

\* the events request i caused
CausedBy(i) == {j \in DOMAIN b_events : j > i /\ b_events[j].n = b_events[i].n}

(***************************************************************************)
(* C12 (as stated): a GET of a path other than "/" is answered 404, that   *)
(* response is all the request causes, and it starts no process: every     *)
(* process was started by a GET of "/".                                    *)
(***************************************************************************)
C12_OtherPathsNotFound ==
    /\ \A i \in Gets :
          b_events[i].target # Root =>
              /\ Cardinality(CausedBy(i)) = 1
              /\ \A j \in CausedBy(i) :
                    /\ b_events[j].ev = "response"
                    /\ b_events[j].status = 404
    /\ \A i \in Launches : b_events[i - 1] = EvGet(b_events[i].n, Root)
    /\ Len(b_children) = Cardinality(Started)

\* the target is "/", "//", "///", ...
OnlySlashes(target) ==
    target # <<>> /\ \A i \in DOMAIN target : target[i] = Slash

(***************************************************************************)
(* C12: the server reads a path made of slashes only as "/".  A GET of     *)
(* any other path is answered 404, that response is all the request        *)
(* causes, and it starts no process: every process was started by a GET    *)
(* of a path made of slashes only.                                         *)
(***************************************************************************)
C12_NotFoundUnlessOnlySlashes ==
    /\ \A i \in Gets :
          ~OnlySlashes(b_events[i].target) =>
              /\ Cardinality(CausedBy(i)) = 1
              /\ \A j \in CausedBy(i) :
                    /\ b_events[j].ev = "response"
                    /\ b_events[j].status = 404
    /\ \A i \in Launches :
          /\ b_events[i - 1].ev = "GET"
          /\ b_events[i - 1].n = b_events[i].n
          /\ OnlySlashes(b_events[i - 1].target)
    /\ Len(b_children) = Cardinality(Started)

\* "//x" was asked for: the handler saw "/x", answered 404 and started
\* nothing
C12_Witness ==
    /\ b_pc = "idle"
    /\ Len(b_events) = 2
    /\ b_events[1] = EvGet(1, Codes("//x"))
    /\ b_events[1].path = Codes("/x")
    /\ b_events[2].ev = "response"
    /\ b_events[2].status = 404
    /\ b_children = <<>>

(***************************************************************************)
(* C13: a GET of "/" calls for the process                                 *)
(*   streamlit run alwrity.py --server.port <PORT> --server.address 0.0.0.0*)
(* where PORT is the PORT of the environment read as a number, 3000 when   *)
(* it is not set; the call comes first and, once the system has started    *)
(* the process, the response 200 text/plain "Streamlit app launching..."   *)
(* follows it and is the next thing the handler does, whether the process  *)
(* is still running or not.                                                *)
(***************************************************************************)
ConfiguredPort ==
    IF env_port = None_ THEN 3000 ELSE ParseInt(env_port.v).v

C13_RootLaunchesThenAnswers ==
    /\ \A i \in Gets :
          b_events[i].path = Root =>
              /\ i + 1 \in Launches
              /\ b_events[i + 1].n = b_events[i].n
              /\ b_events[i + 1].cmd[1] = "streamlit"
              /\ b_events[i + 1].cmd[2] = "run"
              /\ b_events[i + 1].cmd[4] = "--server.port"
              /\ b_events[i + 1].cmd[5] = str(ConfiguredPort)
              /\ b_events[i + 1].cmd[6] = "--server.address"
              /\ b_events[i + 1].cmd[7] = "0.0.0.0"
              /\ (i + 1 \in Started /\ (b_pc = "idle" \/ i + 1 < Len(b_events)))
                    => /\ i + 2 \in Responses
                       /\ b_events[i + 2].n = b_events[i].n
                       /\ b_events[i + 2].status = 200
                       /\ b_events[i + 2].ctype = "text/plain"
                       /\ b_events[i + 2].body = "Streamlit app launching..."
              /\ Cardinality(CausedBy(i)) <= 2
    /\ b_pc = "launched" =>
          /\ Len(b_events) \in Started
          /\ ENABLED DoGetRespond

\* the answer was sent while the process it started was still running; the
\* port was given with blanks around it
C13_Witness ==
    /\ b_pc = "idle"
    /\ env_port = Str(<<32, 56, 48, 10>>)
    /\ Len(b_events) = 3
    /\ b_events[2] = EvPopen(1, <<"streamlit", "run", "alwrity.py",
                                  "--server.port", <<"8", "0">>,
                                  "--server.address", "0.0.0.0">>)
    /\ b_events[3].ev = "response"
    /\ b_events[3].status = 200
    /\ b_children = <<"running">>

(***************************************************************************)
(* C14 (as stated): over any sequence of GETs of "/", only the first one   *)
(* starts a process.                                                       *)
(***************************************************************************)
C14_OneShotLauncher ==
    /\ Cardinality(Started) <= 1
    /\ \A k \in Gets :
          (b_events[k].path = Root
             /\ \A j \in Gets : j < k => b_events[j].path # Root)
          => k + 1 \in Launches

(***************************************************************************)
(* Specifications                                                          *)
(***************************************************************************)
vars == <<avars, svars, dvars, lvars, fvars, bvars, uvars>>

\* a component no call has been made to
IdleAnalyzer == InitAnalyzerIn({[login |-> None_, password |-> None_]})
IdleDisplay == InitDisplayIn({None_})
IdleLoader == InitLoaderIn({<<>>}, {Missing})
IdleFolder == InitFolderIn({}, 0)
IdleBootstrap == InitBootstrapIn({None_})
IdleAudit == InitAuditIn({Str(<<>>)}, {<<>>})

\* the analyzer and its callers
Init == InitAnalyzer /\ IdleDisplay /\ IdleLoader /\ IdleFolder /\ IdleBootstrap /\ IdleAudit

Next ==
    \/ \E login \in UiLogins, password \in UiPasswords :
          main_dataforseo_analyzer(login, password) /\ UNCHANGED <<dvars, lvars, fvars, bvars, uvars, svars>>
    \/ run_dataforseo_audit /\ UNCHANGED <<dvars, lvars, fvars, bvars, uvars, svars>>
    \/ \E net \in Net(ResultBodies), sel \in Selections(TRUE, FALSE) :
          analyze_keywords(net, sel) /\ UNCHANGED <<dvars, lvars, fvars, bvars, uvars>>
    \/ \E net \in Net(ResultBodies), sel \in Selections(TRUE, FALSE) :
          analyze_competitors(net, sel) /\ UNCHANGED <<dvars, lvars, fvars, bvars, uvars>>
    \/ \E net \in Net(ResultBodies), sel \in Selections(FALSE, TRUE) :
          analyze_backlinks(net, sel) /\ UNCHANGED <<dvars, lvars, fvars, bvars, uvars>>
    \/ \E net \in Net(ResultBodies), sel \in Selections(TRUE, FALSE) :
          analyze_serp(net, sel) /\ UNCHANGED <<dvars, lvars, fvars, bvars, uvars>>
    \/ \E net \in Net(ResultBodies), sel \in Selections(TRUE, TRUE) :
          analyze_keyword_ideas(net, sel) /\ UNCHANGED <<dvars, lvars, fvars, bvars, uvars>>
    \/ \E net \in Net(ResultBodies), sel \in Selections(TRUE, FALSE) :
          analyze_content_gaps(net, sel) /\ UNCHANGED <<dvars, lvars, fvars, bvars, uvars>>
    \/ \E net \in Net(SubmitBodies) : OnPageSubmit(net) /\ UNCHANGED <<dvars, lvars, fvars, bvars, uvars, svars>>
    \/ OnPageSleep /\ UNCHANGED <<dvars, lvars, fvars, bvars, uvars, svars>>
    \/ \E net \in Net(StatusBodies) : OnPageStatus(net) /\ UNCHANGED <<dvars, lvars, fvars, bvars, uvars, svars>>
    \/ \E net \in Net(ResultBodies) : OnPageResults(net) /\ UNCHANGED <<dvars, lvars, fvars, bvars, uvars, svars>>
    \/ OnPageTimeout /\ UNCHANGED <<dvars, lvars, fvars, bvars, uvars, svars>>

Spec == Init /\ [][Next]_vars

\* the steps of a running analyze_on_page call
OnPageNext ==
    \/ OnPageSleep /\ UNCHANGED <<dvars, lvars, fvars, bvars, uvars, svars>>
    \/ \E net \in Net(StatusBodies) : OnPageStatus(net) /\ UNCHANGED <<dvars, lvars, fvars, bvars, uvars, svars>>
    \/ \E net \in Net(ResultBodies) : OnPageResults(net) /\ UNCHANGED <<dvars, lvars, fvars, bvars, uvars, svars>>
    \/ OnPageTimeout /\ UNCHANGED <<dvars, lvars, fvars, bvars, uvars, svars>>

\* the same program, where a call that has started goes on running: the
\* sleep ends and every HTTP exchange ends, with a response or an error
SpecLive == Init /\ [][Next]_vars /\ WF_vars(OnPageNext)

\* the display functions
InitD ==
    /\ InitAnalyzerIn({[login |-> Str("env_login"), password |-> Str("env_password")]})
    /\ InitDisplay /\ IdleLoader /\ IdleFolder /\ IdleBootstrap /\ IdleAudit

NextD ==
    \/ \E login \in UiLogins, password \in UiPasswords :
          main_dataforseo_analyzer(login, password) /\ UNCHANGED <<dvars, lvars, fvars, bvars, uvars, svars>>
    \/ \E task \in TaskKinds : SendTask(task) /\ UNCHANGED <<avars, lvars, fvars, bvars, uvars, svars>>
    \/ \E result \in ResultKinds : SendResult(result) /\ UNCHANGED <<avars, lvars, fvars, bvars, uvars, svars>>
    \/ \E item \in ItemKinds : SendItem(item) /\ UNCHANGED <<avars, lvars, fvars, bvars, uvars, svars>>
    \/ \E fn \in RowFlattening :
          Display(fn, Answer(d_body)) /\ UNCHANGED <<lvars, fvars, bvars, uvars>>
    \/ DisplayOnPage(Accepted(d_body)) /\ UNCHANGED <<lvars, fvars, bvars, uvars, svars>>
    \/ OnPageSleep /\ UNCHANGED <<dvars, lvars, fvars, bvars, uvars, svars>>
    \/ OnPageStatus(Ready) /\ UNCHANGED <<dvars, lvars, fvars, bvars, uvars, svars>>
    \/ OnPageResults(Answer(d_body)) /\ UNCHANGED <<dvars, lvars, fvars, bvars, uvars, svars>>
    \/ DisplayOnPageReturn /\ UNCHANGED <<avars, lvars, fvars, bvars, uvars, svars>>

SpecDisplay == InitD /\ [][NextD]_vars

\* the document loader
InitL == IdleAnalyzer /\ IdleDisplay /\ InitLoader /\ IdleFolder /\ IdleBootstrap /\ IdleAudit

NextL == load_document_text /\ UNCHANGED <<avars, dvars, fvars, bvars, uvars, svars>>

SpecLoader == InitL /\ [][NextL]_vars

\* the folder summarizer
InitF == IdleAnalyzer /\ IdleDisplay /\ IdleLoader /\ InitFolder /\ IdleBootstrap /\ IdleAudit

NextF ==
    \/ \E reply \in LlmReplies : ProcessFile(reply) /\ UNCHANGED <<avars, dvars, lvars, bvars, uvars, svars>>
    \/ FolderReturn /\ UNCHANGED <<avars, dvars, lvars, bvars, uvars, svars>>

SpecFolder == InitF /\ [][NextF]_vars

\* the bootstrap server
InitB == IdleAnalyzer /\ IdleDisplay /\ IdleLoader /\ IdleFolder /\ InitBootstrap /\ IdleAudit

NextB ==
    \/ \E bound \in BOOLEAN : Serve(bound) /\ UNCHANGED <<avars, dvars, lvars, fvars, uvars, svars>>
    \/ \E target \in RequestTargets, started \in BOOLEAN : DoGetLaunch(target, started) /\ UNCHANGED <<avars, dvars, lvars, fvars, uvars, svars>>
    \/ DoGetRespond /\ UNCHANGED <<avars, dvars, lvars, fvars, uvars, svars>>
    \/ \E target \in RequestTargets : DoGetNotFound(target) /\ UNCHANGED <<avars, dvars, lvars, fvars, uvars, svars>>
    \/ \E k \in 1..MaxRequests : ChildExits(k) /\ UNCHANGED <<avars, dvars, lvars, fvars, uvars, svars>>

SpecBootstrap == InitB /\ [][NextB]_vars

\* the audit page
AuditStatusBodies ==
    {Tasks(<<>>), Tasks(<<Dict("status" :> Str("pending"))>>),
     Tasks(<<Dict("status" :> Str("ready"))>>)}

AuditResultBodies ==
    {EmptyDict, Tasks(<<Dict("result" :> None_)>>),
     Tasks(<<Dict("result" :> List(<<Dict("items" :> List(<<Bare>>))>>))>>)}

InitU == InitAnalyzer /\ IdleDisplay /\ IdleLoader /\ IdleFolder /\ IdleBootstrap /\ InitAudit

NextU ==
    \/ AuditPress /\ UNCHANGED <<dvars, lvars, fvars, bvars, svars>>
    \/ \E net \in Net({NoTasks, Tasks(<<Dict("id" :> Str("t1"))>>)}) :
          OnPageSubmit(net) /\ u_pc = "on_page" /\ UNCHANGED <<dvars, lvars, fvars, bvars, uvars, svars>>
    \/ OnPageSleep /\ u_pc = "on_page" /\ UNCHANGED <<dvars, lvars, fvars, bvars, uvars, svars>>
    \/ \E net \in {ConnError} \cup {Ok(b) : b \in AuditStatusBodies} :
          OnPageStatus(net) /\ u_pc = "on_page" /\ UNCHANGED <<dvars, lvars, fvars, bvars, uvars, svars>>
    \/ \E net \in {ConnError} \cup {Ok(b) : b \in AuditResultBodies} :
          OnPageResults(net) /\ u_pc = "on_page" /\ UNCHANGED <<dvars, lvars, fvars, bvars, uvars, svars>>
    \/ OnPageTimeout /\ u_pc = "on_page" /\ UNCHANGED <<dvars, lvars, fvars, bvars, uvars, svars>>
    \/ AuditOnPageShown /\ UNCHANGED <<dvars, lvars, fvars, bvars, svars>>
    \/ \E net \in {ConnError} \cup {Ok(b) : b \in AuditResultBodies} :
          AuditKeywordIdeas(net) /\ UNCHANGED <<dvars, lvars, fvars, bvars, svars>>
    \/ \E net \in PageNet(url) : AuditFetch(net) /\ UNCHANGED <<dvars, lvars, fvars, bvars, svars>>
    \/ \E reply \in LlmReplies : AuditSuggest(reply) /\ UNCHANGED <<dvars, lvars, fvars, bvars, svars>>

SpecAudit == InitU /\ [][NextU]_vars

====
